---- MODULE Spec2Model ----
(***************************************************************************)
(* Capture state machine and session aggregator of the typing test         *)
(* (frontend/src/TypingTest.jsx).  Positions are 0-based as in the source; *)
(* position p of a ledger is element p+1 of the TLA+ sequence.             *)
(***************************************************************************)
EXTENDS Integers, Sequences, FiniteSets, TLC

(***************************************************************************)
(* Bounds of the model.  The sizes of the source (200 initial words, 50    *)
(* words per extension, a lookahead of 50 characters, a limit of 60        *)
(* seconds, 50 words) are scaled down; the code paths are the same.        *)
(***************************************************************************)
MaxEvents == 4
MaxTime == 2
TimeLimit == 2
WordCount == 1
TimeModeWords == 1
ExtendWords == 1
Lookahead == 2
MaxDuration == 7
MaxLogLen == 4
MaxTaps == 5
MaxSignals == 5
MaxLedger == 4
MaxPriorTaps == 2
MaxRepeatSignals == 3
MaxPriorSignals == 2
MaxStoredDuration == 3

\* targetChars = testConfig.wordCount * 6
CharsPerWord == 6

\* null of a ledger slot (userInputRef) and the undefined of text[i] past the end
NULL == "null"
UNDEFINED == "undefined"
\* null of the timeRemaining state
NoTime == -1
\* null of the two time refs; Date.now() is never 0 and the code tests them by truthiness
NoStamp == 0

Printable == {"a", "b"}
Keys == Printable \cup {"Backspace", "Shift"}
\* the key-press signals <<e.key, modifier held>> and key-release signals of the model
PressSignals == (Keys \X {FALSE}) \cup {<<"a", TRUE>>}
ReleaseKeys == {"a"}

\* e.key.length
KeyLength(k) == CASE k \in Printable -> 1
                  [] k = "Backspace" -> 9
                  [] k = "Shift" -> 5

\* e.key.length === 1 && !e.ctrlKey && !e.metaKey && !e.altKey
IsPrintable(k, m) == KeyLength(k) = 1 /\ ~m

\* the word list generateText draws from
WordSource == { <<"a", "b">> }

RECURSIVE JoinWords(_)
\* words.join(' ')
JoinWords(ws) == IF Len(ws) = 0 THEN <<>>
                 ELSE IF Len(ws) = 1 THEN ws[1]
                 ELSE ws[1] \o <<" ">> \o JoinWords(Tail(ws))

\* generateText(wordCount): every text Math.random can produce
generateText(n) == { JoinWords(ws) : ws \in [1..n -> WordSource] }

\* new Array(n).fill(v)
Fill(n, v) == [i \in 1..n |-> v]

\* text[i], undefined past the end
CharAt(txt, i) == IF i >= 0 /\ i < Len(txt) THEN txt[i + 1] ELSE UNDEFINED

Max(a, b) == IF a >= b THEN a ELSE b
Min(a, b) == IF a <= b THEN a ELSE b

\* number.toFixed(2) followed by parseFloat, of num/den, in hundredths
ToFixed2(num, den) == (200 * num + den) \div (2 * den)

VARIABLES
  mode,               \* testConfig.mode
  text,               \* text state
  currentIndex,       \* cursor
  sessionActive,
  listenerActive,     \* the sessionActive the handleKeyDown registered on window closes over
  sessionStarted,
  timeRemaining,
  userInput,          \* userInputRef.current
  status,             \* statusRef.current
  events,             \* eventsRef.current
  sessionStartTime,   \* sessionStartTimeRef.current
  lastKeystrokeTime,  \* lastKeystrokeTimeRef.current
  totalKeystrokes,
  maxIndexReached,
  firstTimeErrors,
  now,                \* the clock Date.now() reads
  lastInput,          \* the key signal delivered last, if no other input came after it
  sessionData,        \* the record endSession assembled (its local const)
  savePc,             \* "idle" | "saving": endSession waiting for saveSession
  saveStatus,
  persisted,          \* the JSON handed to the store
  downloaded,         \* the JSON of the last downloaded file
  file,               \* the events array of the session file given to the Analyzer
  fileShape,          \* what JSON.parse made of the file: "record", or how it is malformed
  charStates,         \* data.charStates of the file
  alerted,            \* analyzeData has raised its alert
  analyzerSessionData, \* the sessionData state of the Analyzer is not null
  statistics,         \* the result states of the Analyzer
  dwellTimeByKey,
  dwellTimeByFinger,
  flightTimeByKey,
  flightTimeByFinger,
  digraphLatency,
  errorConfusionMatrix,
  rhythmData,
  shiftPenalty,
  fetchPc,            \* getSession of the Analyzer: "none" | "pending" | "delivered"
  requestBody,        \* req.body of the POST that creates a session
  row,                \* the row of the sessions table with that session
  response            \* the last response of the sessions router

ledger == <<userInput, status, totalKeystrokes, maxIndexReached, firstTimeErrors>>
capture == <<text, currentIndex, sessionActive, listenerActive, sessionStarted,
             timeRemaining,
             userInput, status, events, sessionStartTime, lastKeystrokeTime,
             totalKeystrokes, maxIndexReached, firstTimeErrors>>
handoff == <<sessionData, savePc, saveStatus, persisted, downloaded>>
upload == <<file, fileShape, charStates>>
views == <<statistics, dwellTimeByKey, dwellTimeByFinger, flightTimeByKey,
           flightTimeByFinger, digraphLatency, errorConfusionMatrix, rhythmData,
           shiftPenalty>>
analysis == <<upload, views, alerted, analyzerSessionData, fetchPc>>
store == <<requestBody, row, response>>
vars == <<mode, capture, now, lastInput, handoff, analysis, store>>

NoRecord == [none |-> TRUE]
Input(type, k, m) == [type |-> type, key |-> k, mod |-> m]
NoInput == Input("none", "", FALSE)
\* the null of an Analyzer result state, and a result that was set
NotAnalyzed == [set |-> FALSE]
Analyzed(v) == [set |-> TRUE, value |-> v]
\* a field of the session file that is missing, and one that is there
Absent == [present |-> FALSE]
Present(v) == [present |-> TRUE, value |-> v]
\* the useState(null) of every result of the Analyzer
NoViews ==
  /\ alerted = FALSE
  /\ analyzerSessionData = FALSE
  /\ statistics = NotAnalyzed
  /\ dwellTimeByKey = NotAnalyzed
  /\ dwellTimeByFinger = NotAnalyzed
  /\ flightTimeByKey = NotAnalyzed
  /\ flightTimeByFinger = NotAnalyzed
  /\ digraphLatency = NotAnalyzed
  /\ errorConfusionMatrix = NotAnalyzed
  /\ rhythmData = NotAnalyzed
  /\ shiftPenalty = NotAnalyzed
\* no request has reached the sessions router
NoRow == [none |-> TRUE]
NoResponse == [status |-> 0]
NoStore ==
  /\ requestBody = NoRecord
  /\ row = NoRow
  /\ response = NoResponse
\* the Analyzer was not opened with the id of a session
NoFetch == fetchPc = "none"
\* no session file was given to the Analyzer
NoUpload ==
  /\ file = <<>>
  /\ fileShape = "record"
  /\ charStates = Absent
  /\ NoViews

\* calculateAccuracy reporting the share of errors
calculateAccuracy_ErrorShare(maxReached, errors) ==
  IF maxReached = 0 THEN 10000
  ELSE ToFixed2(Cardinality(errors) * 100, maxReached)

\* calculateAccuracy, in hundredths of a percent
calculateAccuracy(maxReached, errors) ==
  IF maxReached = 0 THEN 10000
  ELSE ToFixed2((maxReached - Cardinality(errors)) * 100, maxReached)

\* JoinTyped losing the last typed value
JoinTyped_DropLast(s) == IF Len(s) = 0 THEN <<>> ELSE SubSeq(s, 1, Len(s) - 1)

\* userInputRef.current.slice(0, max).join(''): join renders null as ''
RECURSIVE JoinTyped(_)
JoinTyped(s) == IF Len(s) = 0 THEN <<>>
                ELSE (IF s[1] = NULL THEN <<>> ELSE <<s[1]>>) \o JoinTyped(Tail(s))

\* SessionDuration running to the moment the record is built
SessionDuration_UntilNow(start, last, clock) ==
  IF start # NoStamp THEN clock - start ELSE 0

\* the duration of buildSessionData; clock is the Date.now() fallback
SessionDuration(start, last, clock) ==
  LET endTime == IF last # NoStamp THEN last
                 ELSE IF start # NoStamp THEN start ELSE clock
  IN IF start # NoStamp THEN endTime - start ELSE 0

\* CharsPerMinute dividing by the seconds of the session
CharsPerMinute_PerSecond(count, duration) ==
  IF duration > 0 THEN ToFixed2(count * 1000, duration) ELSE 0

\* parseFloat((count / (duration / 60000)).toFixed(2)) or 0, in hundredths
CharsPerMinute(count, duration) ==
  IF duration > 0 THEN ToFixed2(count * 60000, duration) ELSE 0

\* buildSessionData over the refs it reads
buildSessionData(txt, ui, st, evs, start, last, total, maxIdx, errs, clock) ==
  LET duration == SessionDuration(start, last, clock)
  IN [ text |-> txt,
       userInput |-> JoinTyped(SubSeq(ui, 1, Min(maxIdx, Len(ui)))),
       charStates |-> [i \in 1..Len(txt) |->
                         [char |-> txt[i],
                          userBuffer |-> IF i <= Len(ui) THEN ui[i] ELSE UNDEFINED,
                          status |-> IF i <= Len(st) THEN st[i] ELSE UNDEFINED]],
       events |-> evs,
       sessionDuration |-> duration,
       mechanicalCPM |-> CharsPerMinute(total, duration),
       productiveCPM |-> CharsPerMinute(maxIdx, duration),
       accuracy |-> calculateAccuracy(maxIdx, errs),
       totalKeystrokes |-> total,
       maxIndexReached |-> maxIdx,
       firstTimeErrors |-> errs ]

\* the TypingTest component after its first render
Mounted ==
  /\ mode \in {"time", "words"}
  /\ text \in generateText(IF mode = "words" THEN WordCount ELSE TimeModeWords)
  /\ currentIndex = 0
  /\ sessionActive = FALSE
  /\ listenerActive = FALSE
  /\ sessionStarted = FALSE
  /\ timeRemaining = NoTime
  /\ userInput = Fill(Len(text), NULL)
  /\ status = Fill(Len(text), "pending")
  /\ events = <<>>
  /\ sessionStartTime = NoStamp
  /\ lastKeystrokeTime = NoStamp
  /\ totalKeystrokes = 0
  /\ maxIndexReached = 0
  /\ firstTimeErrors = {}
  /\ now = 1
  /\ lastInput = NoInput
  /\ sessionData = NoRecord
  /\ savePc = "idle"
  /\ saveStatus = "none"
  /\ persisted = NoRecord
  /\ downloaded = NoRecord

Init ==
  /\ Mounted
  /\ NoStore
  /\ NoFetch
  /\ NoUpload

\* the values the next Date.now() can return when the last one returned t
ClockReads(t) == t..Min(t + 1, MaxTime)

\* the object pushed to eventsRef.current by handleKeyDown and handleKeyUp
KeyEvent(type, k, ts, start, idx, txt) ==
  [ type |-> type,
    key |-> k,
    timestamp |-> ts,
    relativeTime |-> IF start # NoStamp THEN ts - start ELSE 0,
    currentIndex |-> idx,
    expectedChar |-> IF idx < Len(txt) THEN txt[idx + 1] ELSE "" ]

\* StatusAfterPress giving Corrected to every retype, hit or miss
StatusAfterPress_RetypeCorrected(isFirstAttempt, isCorrect) ==
  IF isFirstAttempt
    THEN (IF isCorrect THEN "correct" ELSE "incorrect")
    ELSE "corrected"

\* StatusAfterPress giving Correct to a retype that hits
StatusAfterPress_RetypeCorrect(isFirstAttempt, isCorrect) ==
  IF isCorrect THEN "correct" ELSE "incorrect"

\* statusRef.current[currentIndex] = ... of a printable press
StatusAfterPress(isFirstAttempt, isCorrect) ==
  IF isFirstAttempt
    THEN (IF isCorrect THEN "correct" ELSE "incorrect")
    ELSE (IF isCorrect THEN "corrected" ELSE "incorrect")

\* IsFirstAttempt that never recognises a first attempt
IsFirstAttempt_Never(ui, idx) == FALSE

\* isFirstAttempt = userInputRef.current[currentIndex] === null
IsFirstAttempt(ui, idx) == idx < Len(ui) /\ ui[idx + 1] = NULL

\* ErrorsAfterPress recording every miss, first attempt or not
ErrorsAfterPress_EveryMiss(errs, idx, isFirstAttempt, isCorrect) ==
  IF ~isCorrect THEN errs \cup {idx} ELSE errs

\* firstTimeErrorsRef after a printable press at idx
ErrorsAfterPress(errs, idx, isFirstAttempt, isCorrect) ==
  IF isFirstAttempt /\ ~isCorrect THEN errs \cup {idx} ELSE errs

\* MaxIndexAfterPress counting every press, first attempt or not
MaxIndexAfterPress_EveryPress(maxIdx, idx, isFirstAttempt) == Max(maxIdx, idx) + 1

\* maxIndexReachedRef after a printable press at idx
MaxIndexAfterPress(maxIdx, idx, isFirstAttempt) ==
  IF isFirstAttempt THEN Max(maxIdx, idx + 1) ELSE maxIdx

\* PressIgnored starting the session on any printable key
PressIgnored_AnyPrintable(k, m) ==
  \/ mode = "words" /\ currentIndex >= Len(text)
  \/ sessionStarted /\ ~listenerActive
  \/ ~sessionStarted /\ ~IsPrintable(k, m)

\* PressIgnored without the check for an ended session
PressIgnored_EndedAccepts(k, m) ==
  \/ mode = "words" /\ currentIndex >= Len(text)
  \/ ~sessionStarted /\ ~(IsPrintable(k, m) /\ k = CharAt(text, 0))

\* the early returns of handleKeyDown: the press is discarded
PressIgnored(k, m) ==
  \/ mode = "words" /\ currentIndex >= Len(text)
  \/ sessionStarted /\ ~listenerActive
  \/ ~sessionStarted /\ ~(IsPrintable(k, m) /\ k = CharAt(text, 0))

\* endSession up to its await: the record is assembled and handed to saveSession,
\* which serialises it (JSON.stringify) before the request leaves
EndSessionWith(rec) ==
  /\ sessionActive' = FALSE
  /\ sessionData' = rec
  /\ persisted' = rec
  /\ savePc' = "saving"
  /\ saveStatus' = "saving"
  /\ UNCHANGED downloaded

\* CountsAsKeystroke leaving Backspace out of the count
CountsAsKeystroke_NoBackspace(k, m, idx) == k # "Backspace" /\ IsPrintable(k, m)

\* CountsAsKeystroke counting every accepted press
CountsAsKeystroke_AnyKey(k, m, idx) == TRUE

\* totalKeystrokesRef.current++: a Backspace with the cursor past 0, or a printable key
CountsAsKeystroke(k, m, idx) ==
  IF k = "Backspace" THEN idx > 0 ELSE IsPrintable(k, m)

\* ExtendedLedger without the slot of the joining space
ExtendedLedger_NoSeparator(arr, newText, v) == arr \o Fill(Len(newText), v)

\* [...ref.current, ...new Array(newText.length + 1).fill(v)]
ExtendedLedger(arr, newText, v) == arr \o Fill(Len(newText) + 1, v)

\* handleKeyDown past its early returns, with the three clock reads t0 (session
\* start), t1 (lastKeystrokeTime), t2 (event timestamp) and the generated batch
ApplyKeyDown(k, m, t0, t1, t2, newText) ==
  LET starting == ~sessionStarted
      start1 == IF starting THEN t0 ELSE sessionStartTime
      extend == mode = "time" /\ currentIndex > Len(text) - Lookahead
      text1 == IF extend THEN text \o <<" ">> \o newText ELSE text
      ui1 == IF extend THEN ExtendedLedger(userInput, newText, NULL) ELSE userInput
      st1 == IF extend THEN ExtendedLedger(status, newText, "pending") ELSE status
      events1 == Append(events, KeyEvent("keydown", k, t2, start1, currentIndex, text))
      isBackspace == k = "Backspace"
      printable == ~isBackspace /\ IsPrintable(k, m)
      isCorrect == k = CharAt(text, currentIndex)
      isFirstAttempt == IsFirstAttempt(ui1, currentIndex)
      ui2 == IF printable THEN [ui1 EXCEPT ![currentIndex + 1] = k] ELSE ui1
      st2 == IF printable
               THEN [st1 EXCEPT ![currentIndex + 1] = StatusAfterPress(isFirstAttempt, isCorrect)]
               ELSE st1
      errs2 == IF printable
                 THEN ErrorsAfterPress(firstTimeErrors, currentIndex, isFirstAttempt, isCorrect)
                 ELSE firstTimeErrors
      max2 == IF printable
                THEN MaxIndexAfterPress(maxIndexReached, currentIndex, isFirstAttempt)
                ELSE maxIndexReached
      total2 == IF CountsAsKeystroke(k, m, currentIndex)
                  THEN totalKeystrokes + 1 ELSE totalKeystrokes
      idx2 == IF isBackspace THEN (IF currentIndex > 0 THEN currentIndex - 1 ELSE currentIndex)
              ELSE IF printable THEN currentIndex + 1 ELSE currentIndex
      \* the word-count effect runs after the render this press caused
      \* setSessionActive(true) is called by the starting press only
      active2 == IF starting THEN TRUE ELSE sessionActive
      \* a state update was queued: the component renders again and the effect
      \* of the listeners registers the handleKeyDown of that render
      rendered == starting \/ extend \/ idx2 # currentIndex
      wordsEnd == /\ mode = "words" /\ active2
                  /\ (starting \/ idx2 # currentIndex)
                  /\ max2 >= WordCount * CharsPerWord
  IN /\ text' = text1
     /\ userInput' = ui2
     /\ status' = st2
     /\ events' = events1
     /\ firstTimeErrors' = errs2
     /\ maxIndexReached' = max2
     /\ totalKeystrokes' = total2
     /\ currentIndex' = idx2
     /\ sessionStarted' = TRUE
     /\ sessionStartTime' = start1
     /\ lastKeystrokeTime' = t1
     /\ now' = t2
     /\ timeRemaining' = IF starting /\ mode = "time" THEN TimeLimit ELSE timeRemaining
     /\ IF wordsEnd
          THEN EndSessionWith(buildSessionData(text1, ui2, st2, events1, start1, t1,
                                               total2, max2, errs2, t2))
          ELSE /\ sessionActive' = active2
               \* sessionData.events is eventsRef.current itself, not a copy
               /\ sessionData' = IF sessionData = NoRecord THEN NoRecord
                                 ELSE [sessionData EXCEPT !.events = events1]
               /\ UNCHANGED <<savePc, saveStatus, persisted, downloaded>>
     /\ listenerActive' = IF rendered THEN sessionActive' ELSE listenerActive

\* handleKeyDown(e) with e.key = k and m = e.ctrlKey || e.metaKey || e.altKey
handleKeyDown(k, m) ==
  /\ UNCHANGED <<analysis, store>>
  /\ lastInput' = Input("keydown", k, m)
  /\ UNCHANGED mode
  /\ IF PressIgnored(k, m)
       THEN UNCHANGED <<capture, now, handoff>>
       ELSE /\ Len(events) < MaxEvents
            /\ \E t0 \in (IF sessionStarted THEN {now} ELSE ClockReads(now)) :
                 \E t1 \in ClockReads(t0) :
                   \E t2 \in ClockReads(t1) :
                     \E newText \in generateText(ExtendWords) :
                       ApplyKeyDown(k, m, t0, t1, t2, newText)

\* handleKeyUp(e) with e.key = k
handleKeyUp(k) ==
  /\ UNCHANGED <<analysis, store>>
  /\ lastInput' = Input("keyup", k, FALSE)
  /\ IF sessionStartTime = NoStamp
       THEN UNCHANGED <<events, now, sessionData>>
       ELSE /\ Len(events) < MaxEvents
            /\ \E t \in ClockReads(now) :
              /\ now' = t
              /\ events' = Append(events,
                     KeyEvent("keyup", k, t, sessionStartTime, currentIndex, text))
              \* sessionData.events is eventsRef.current itself, not a copy
              /\ sessionData' = IF sessionData = NoRecord THEN NoRecord
                                ELSE [sessionData EXCEPT !.events = events']
  /\ UNCHANGED <<mode, text, currentIndex, sessionActive, listenerActive, sessionStarted,
                 timeRemaining, userInput, status, sessionStartTime, lastKeystrokeTime,
                 totalKeystrokes, maxIndexReached, firstTimeErrors,
                 savePc, saveStatus, persisted, downloaded>>

\* the End Session button, shown while sessionActive
endSession ==
  /\ UNCHANGED <<analysis, store>>
  /\ sessionActive
  /\ lastInput' = NoInput
  /\ listenerActive' = FALSE
  /\ EndSessionWith(buildSessionData(text, userInput, status, events, sessionStartTime,
                                     lastKeystrokeTime, totalKeystrokes, maxIndexReached,
                                     firstTimeErrors, now))
  /\ UNCHANGED <<mode, text, currentIndex, sessionStarted, timeRemaining,
                 userInput, status, events, sessionStartTime, lastKeystrokeTime,
                 totalKeystrokes, maxIndexReached, firstTimeErrors,
                 now>>

\* NextTimeRemaining of a timer that does not count down
NextTimeRemaining_Stalled(prev) == prev

\* the updater of setTimeRemaining in the interval callback
NextTimeRemaining(prev) == IF prev <= 1 THEN 0 ELSE prev - 1

\* one firing of the one-second interval, and the timer effect of the render it
\* causes, which calls endSession when the time is up
TimerCallback ==
  /\ UNCHANGED <<analysis, store>>
  /\ mode = "time" /\ sessionActive /\ timeRemaining # NoTime /\ timeRemaining > 0
  /\ lastInput' = NoInput
  /\ timeRemaining' = NextTimeRemaining(timeRemaining)
  /\ IF timeRemaining' <= 0
       THEN EndSessionWith(buildSessionData(text, userInput, status, events,
                                            sessionStartTime, lastKeystrokeTime,
                                            totalKeystrokes, maxIndexReached,
                                            firstTimeErrors, now))
       ELSE UNCHANGED <<sessionActive, handoff>>
  /\ UNCHANGED <<mode, text, currentIndex, sessionStarted,
                 userInput, status, events, sessionStartTime, lastKeystrokeTime,
                 totalKeystrokes, maxIndexReached, firstTimeErrors,
                 now>>

\* the timer callback together with the render that follows setSessionActive(false)
\* and the effect that registers the handleKeyDown of that render
TimerTick ==
  /\ TimerCallback
  /\ listenerActive' = sessionActive'

\* the timer callback alone: the render that follows is still to come
TimerTickUnrendered ==
  /\ TimerCallback
  /\ UNCHANGED listenerActive

\* the render after a state update of the timer callback, and its effect: the
\* listeners of the last render are removed and those of this render registered
RegisterListeners ==
  /\ listenerActive # sessionActive
  /\ listenerActive' = sessionActive
  /\ lastInput' = NoInput
  /\ UNCHANGED <<mode, text, currentIndex, sessionActive, sessionStarted, timeRemaining,
                 userInput, status, events, sessionStartTime, lastKeystrokeTime,
                 totalKeystrokes, maxIndexReached, firstTimeErrors,
                 now, handoff, analysis, store>>

\* SaveSettled with the download inside the try block: a failed save skips it
SaveSettled_DownloadInTry(ok) ==
  /\ UNCHANGED <<analysis, store>>
  /\ savePc = "saving"
  /\ savePc' = "idle"
  /\ lastInput' = NoInput
  /\ saveStatus' = IF ok THEN "success" ELSE "error"
  /\ downloaded' = IF ok THEN sessionData ELSE downloaded
  /\ UNCHANGED <<mode, capture, now, sessionData, persisted>>

\* endSession after its await: saveSession settled, the record is downloaded
SaveSettled(ok) ==
  /\ UNCHANGED <<analysis, store>>
  /\ savePc = "saving"
  /\ savePc' = "idle"
  /\ lastInput' = NoInput
  /\ saveStatus' = IF ok THEN "success" ELSE "error"
  /\ downloaded' = sessionData
  /\ UNCHANGED <<mode, capture, now, sessionData, persisted>>

\* the Download Session Data button, shown once the session has ended
downloadSessionData ==
  /\ UNCHANGED <<analysis, store>>
  /\ sessionStarted /\ ~sessionActive
  /\ lastInput' = NoInput
  /\ downloaded' = buildSessionData(text, userInput, status, events, sessionStartTime,
                                    lastKeystrokeTime, totalKeystrokes, maxIndexReached,
                                    firstTimeErrors, now)
  /\ UNCHANGED <<mode, capture, now, sessionData, savePc, saveStatus, persisted>>

\* reset that forgets the forward-progress counter
reset_KeepsProgress ==
  /\ UNCHANGED <<analysis, store>>
  /\ savePc = "idle"
  /\ \E newText \in generateText(IF mode = "words" THEN WordCount ELSE TimeModeWords) :
       /\ text' = newText
       /\ userInput' = Fill(Len(newText), NULL)
       /\ status' = Fill(Len(newText), "pending")
  /\ currentIndex' = 0
  /\ sessionActive' = FALSE
  /\ listenerActive' = FALSE
  /\ sessionStarted' = FALSE
  /\ timeRemaining' = NoTime
  /\ events' = <<>>
  /\ totalKeystrokes' = 0
  /\ maxIndexReached' = maxIndexReached
  /\ firstTimeErrors' = {}
  /\ sessionStartTime' = NoStamp
  /\ lastKeystrokeTime' = NoStamp
  /\ lastInput' = NoInput
  \* the finished endSession call and its record are gone (eventsRef.current is a new
  \* array); the model follows the handoff of one session at a time
  /\ sessionData' = NoRecord
  /\ persisted' = NoRecord
  /\ downloaded' = NoRecord
  /\ saveStatus' = "none"
  /\ UNCHANGED <<mode, now, savePc>>

\* the Reset button; the model lets it act once a pending save has settled
reset ==
  /\ UNCHANGED <<analysis, store>>
  /\ savePc = "idle"
  /\ \E newText \in generateText(IF mode = "words" THEN WordCount ELSE TimeModeWords) :
       /\ text' = newText
       /\ userInput' = Fill(Len(newText), NULL)
       /\ status' = Fill(Len(newText), "pending")
  /\ currentIndex' = 0
  /\ sessionActive' = FALSE
  /\ listenerActive' = FALSE
  /\ sessionStarted' = FALSE
  /\ timeRemaining' = NoTime
  /\ events' = <<>>
  /\ totalKeystrokes' = 0
  /\ maxIndexReached' = 0
  /\ firstTimeErrors' = {}
  /\ sessionStartTime' = NoStamp
  /\ lastKeystrokeTime' = NoStamp
  /\ lastInput' = NoInput
  \* the finished endSession call and its record are gone (eventsRef.current is a new
  \* array); the model follows the handoff of one session at a time
  /\ sessionData' = NoRecord
  /\ persisted' = NoRecord
  /\ downloaded' = NoRecord
  /\ saveStatus' = "none"
  /\ UNCHANGED <<mode, now, savePc>>

Next ==
  \/ \E sig \in PressSignals : handleKeyDown(sig[1], sig[2])
  \/ \E k \in ReleaseKeys : handleKeyUp(k)
  \/ endSession
  \/ TimerTick
  \/ \E ok \in BOOLEAN : SaveSettled(ok)
  \/ downloadSessionData
  \/ reset

Spec == Init /\ [][Next]_vars

\* the interval of the timer effect is re-armed after every tick and cleared only
\* when the session leaves Active: while it is armed it keeps firing
LiveSpec == Spec /\ WF_vars(TimerTick)

(***************************************************************************)
(* A word-count session of a typist who only types forward: every press is *)
(* a printable key, hit or miss, and no button is used.  The word list     *)
(* holds a word shorter and a word not shorter than CharsPerWord.          *)
(***************************************************************************)
TypistWords == WordSource \cup { <<"a", "b", "a", "b", "a", "b">> }

TypistInit ==
  /\ mode = "words"
  /\ text \in { JoinWords(ws) : ws \in [1..WordCount -> TypistWords] }
  /\ currentIndex = 0
  /\ sessionActive = FALSE
  /\ listenerActive = FALSE
  /\ sessionStarted = FALSE
  /\ timeRemaining = NoTime
  /\ userInput = Fill(Len(text), NULL)
  /\ status = Fill(Len(text), "pending")
  /\ events = <<>>
  /\ sessionStartTime = NoStamp
  /\ lastKeystrokeTime = NoStamp
  /\ totalKeystrokes = 0
  /\ maxIndexReached = 0
  /\ firstTimeErrors = {}
  /\ now = 1
  /\ lastInput = NoInput
  /\ sessionData = NoRecord
  /\ savePc = "idle"
  /\ saveStatus = "none"
  /\ persisted = NoRecord
  /\ downloaded = NoRecord
  /\ NoUpload
  /\ NoStore
  /\ NoFetch

\* handleKeyDown of a printable key that is not discarded; the text bounds the
\* number of these presses
TypeForward(k) ==
  /\ UNCHANGED <<analysis, store>>
  /\ ~PressIgnored(k, FALSE)
  /\ lastInput' = Input("keydown", k, FALSE)
  /\ UNCHANGED mode
  /\ \E t0 \in (IF sessionStarted THEN {now} ELSE ClockReads(now)) :
       \E t1 \in ClockReads(t0) :
         \E t2 \in ClockReads(t1) :
           \E newText \in generateText(ExtendWords) :
             ApplyKeyDown(k, FALSE, t0, t1, t2, newText)

TypistNext ==
  \/ \E k \in Printable : TypeForward(k)
  \/ \E ok \in BOOLEAN : SaveSettled(ok)

\* the typist keeps typing while a key-press is still accepted
TypistSpec ==
  TypistInit /\ [][TypistNext]_vars /\ WF_vars(\E k \in Printable : TypeForward(k))

(***************************************************************************)
(* Sessions with durations of several milliseconds, for the figures of the *)
(* record: an Active word-count session in which the first n characters    *)
(* were typed correctly and then b Backspaces were pressed, the last press *)
(* d milliseconds after the start.                                         *)
(***************************************************************************)
\* the log of those n + b presses, the last one stamped last
TypedLog(txt, n, b, start, last) ==
  [ i \in 1..(n + b) |->
      KeyEvent("keydown",
               IF i <= n THEN txt[i] ELSE "Backspace",
               IF i = n + b THEN last ELSE start,
               start,
               IF i <= n THEN i - 1 ELSE n - (i - n - 1),
               txt) ]

MetricsInit ==
  /\ mode = "words"
  /\ text \in { JoinWords(ws) : ws \in [1..WordCount -> TypistWords] }
  /\ \E n \in 1..Len(text) : \E b \in 0..n : \E d \in 0..MaxDuration :
       \* the session is Active: the target is not reached, and no Backspace
       \* was accepted at the end of the text
       /\ n < WordCount * CharsPerWord
       /\ (n = Len(text)) => (b = 0)
       /\ currentIndex = n - b
       /\ userInput = [i \in 1..Len(text) |-> IF i <= n THEN text[i] ELSE NULL]
       /\ status = [i \in 1..Len(text) |-> IF i <= n THEN "correct" ELSE "pending"]
       /\ sessionStartTime = 1
       /\ lastKeystrokeTime = 1 + d
       /\ now = 1 + d
       /\ events = TypedLog(text, n, b, 1, 1 + d)
       /\ totalKeystrokes = n + b
       /\ maxIndexReached = n
  /\ sessionActive = TRUE
  /\ listenerActive = TRUE
  /\ sessionStarted = TRUE
  /\ timeRemaining = NoTime
  /\ firstTimeErrors = {}
  /\ lastInput = NoInput
  /\ sessionData = NoRecord
  /\ savePc = "idle"
  /\ saveStatus = "none"
  /\ persisted = NoRecord
  /\ downloaded = NoRecord
  /\ NoUpload
  /\ NoStore
  /\ NoFetch

MetricsNext ==
  \/ endSession
  \/ \E ok \in BOOLEAN : SaveSettled(ok)

MetricsSpec == MetricsInit /\ [][MetricsNext]_vars

(***************************************************************************)
(* The Analyzer (frontend/src/Analyzer.jsx) over the event log of a        *)
(* session file.  A JavaScript Map or object is a function on its keys;    *)
(* an average sum / length is kept as the pair of sum and length.          *)
(***************************************************************************)
AnalyzerKeys == {"a", "b"}
\* timestamps of the logs, in milliseconds
Stamps == {1000, 1150, 1210}

\* the fields of a logged event the dwell scan reads
LogEvents ==
  [type : {"keydown", "keyup"}, key : AnalyzerKeys, timestamp : Stamps]

\* event logs in the order of their timestamps
Logs ==
  UNION { { evs \in [1..n -> LogEvents] :
              \A i \in 1..(n - 1) : evs[i].timestamp <= evs[i + 1].timestamp } :
          n \in 0..MaxLogLen }

EmptyMap == [x \in {} |-> 0]
\* map.set(k, v) and obj[k] = v
MapSet(m, k, v) == [x \in DOMAIN m \cup {k} |-> IF x = k THEN v ELSE m[x]]
\* map.delete(k)
MapDelete(m, k) == [x \in DOMAIN m \ {k} |-> m[x]]

\* PendingAfterRelease keeping the press timestamp after it was used
PendingAfterRelease_Kept(keyDownMap, k) == keyDownMap

\* keyDownMap.delete(event.key) after a sample was taken
PendingAfterRelease(keyDownMap, k) == MapDelete(keyDownMap, k)

RECURSIVE DwellScan(_, _, _)
\* the events.forEach of calculateDwellTimeByKey over the rest of the log
DwellScan(evs, keyDownMap, dwellTimes) ==
  IF evs = <<>> THEN dwellTimes
  ELSE LET event == Head(evs)
       IN IF event.type = "keydown"
            THEN DwellScan(Tail(evs),
                           MapSet(keyDownMap, event.key, event.timestamp), dwellTimes)
          ELSE IF event.type = "keyup" /\ event.key \in DOMAIN keyDownMap
            THEN DwellScan(Tail(evs),
                           PendingAfterRelease(keyDownMap, event.key),
                           MapSet(dwellTimes, event.key,
                                  Append(IF event.key \in DOMAIN dwellTimes
                                           THEN dwellTimes[event.key] ELSE <<>>,
                                         event.timestamp - keyDownMap[event.key])))
          ELSE DwellScan(Tail(evs), keyDownMap, dwellTimes)

RECURSIVE SeqSum(_)
\* times.reduce((sum, t) => sum + t, 0)
SeqSum(times) == IF times = <<>> THEN 0 ELSE Head(times) + SeqSum(Tail(times))

\* times.reduce(...) / times.length
Average(times) == [sum |-> SeqSum(times), count |-> Len(times)]

calculateDwellTimeByKey(evs) ==
  LET dwellTimes == DwellScan(evs, EmptyMap, EmptyMap)
  IN [k \in DOMAIN dwellTimes |-> Average(dwellTimes[k])]

\* the null of lastKeyUpTime, lastKeydownTime and sessionStartTime in the scans
NoKeyTime == -1

\* lastKeyUpTime keeping the time of the last event of either type
ReleaseTimeAfter_AnyEvent(event, lastKeyUpTime) == event.timestamp

\* lastKeyUpTime after an event: only a keyup sets it
ReleaseTimeAfter(event, lastKeyUpTime) ==
  IF event.type = "keyup" THEN event.timestamp ELSE lastKeyUpTime

RECURSIVE FlightScan(_, _, _, _)
\* the events.forEach of calculateFlightTimeByKey over the rest of the log
FlightScan(evs, lastKeyUpTime, lastKey, flightTimes) ==
  IF evs = <<>> THEN flightTimes
  ELSE LET event == Head(evs)
       IN IF event.type = "keydown"
            THEN FlightScan(Tail(evs), ReleaseTimeAfter(event, lastKeyUpTime), lastKey,
                   IF lastKeyUpTime # NoKeyTime /\ lastKey # NULL
                     THEN MapSet(flightTimes, event.key,
                                 Append(IF event.key \in DOMAIN flightTimes
                                          THEN flightTimes[event.key] ELSE <<>>,
                                        event.timestamp - lastKeyUpTime))
                     ELSE flightTimes)
          ELSE IF event.type = "keyup"
            THEN FlightScan(Tail(evs), ReleaseTimeAfter(event, lastKeyUpTime),
                            event.key, flightTimes)
          ELSE FlightScan(Tail(evs), lastKeyUpTime, lastKey, flightTimes)

calculateFlightTimeByKey(evs) ==
  LET flightTimes == FlightScan(evs, NoKeyTime, NULL, EmptyMap)
  IN [k \in DOMAIN flightTimes |-> Average(flightTimes[k])]

(***************************************************************************)
(* Fingers.  fingermap.json lists the keys of each of the ten fingers; the  *)
(* table of the model holds the entries of the keys of its logs.  A         *)
(* quotient of quotients is kept exact as num / den with den > 0.           *)
(***************************************************************************)
Fingers == {"LP", "LR", "LM", "LI", "LT", "RT", "RI", "RM", "RR", "RP"}
fingerMap ==
  [f \in Fingers |-> CASE f = "LP" -> {"Q", "a"}
                       [] f = "LI" -> {"b"}
                       [] f = "RI" -> {"j"}
                       [] OTHER -> {}]

\* key.toLowerCase() and key.toUpperCase() on the keys of the model
ToLowerCase(k) ==
  CASE k = "A" -> "a" [] k = "B" -> "b" [] k = "Q" -> "q"
    [] k = "Backspace" -> "backspace" [] k = "Shift" -> "shift"
    [] k = "Dead" -> "dead" [] OTHER -> k
ToUpperCase(k) ==
  CASE k = "a" -> "A" [] k = "b" -> "B" [] k = "q" -> "Q" [] k = "j" -> "J"
    [] k = "Backspace" -> "BACKSPACE" [] k = "Shift" -> "SHIFT"
    [] k = "Dead" -> "DEAD" [] OTHER -> k

\* the Map built from fingerMap: lookup.set(key.toLowerCase(), finger)
fingerLookup ==
  [k \in { ToLowerCase(x) : x \in UNION { fingerMap[f] : f \in Fingers } } |->
     CHOOSE f \in Fingers : \E x \in fingerMap[f] : ToLowerCase(x) = k]

\* getFingerForKey looking the key up as it is written
getFingerForKey_Verbatim(key) ==
  IF key \in DOMAIN fingerLookup THEN fingerLookup[key] ELSE NULL

\* fingerLookup.get(key.toLowerCase()) || null
getFingerForKey(key) ==
  IF ToLowerCase(key) \in DOMAIN fingerLookup
    THEN fingerLookup[ToLowerCase(key)] ELSE NULL

Quot(n, d) == [num |-> n, den |-> d]

RECURSIVE SumOfAverages(_, _)
\* times.reduce((sum, t) => sum + t, 0) over the per-key averages of the keys ks
SumOfAverages(ks, byKey) ==
  IF ks = {} THEN Quot(0, 1)
  ELSE LET k == CHOOSE x \in ks : TRUE
           rest == SumOfAverages(ks \ {k}, byKey)
       IN Quot(byKey[k].sum * rest.den + rest.num * byKey[k].count,
               byKey[k].count * rest.den)

RECURSIVE PooledSamples(_, _)
\* sum and number of all samples of the keys ks
PooledSamples(ks, byKey) ==
  IF ks = {} THEN Quot(0, 0)
  ELSE LET k == CHOOSE x \in ks : TRUE
           rest == PooledSamples(ks \ {k}, byKey)
       IN Quot(byKey[k].sum + rest.num, byKey[k].count + rest.den)

\* the average of one finger taken over all samples of its keys
FingerAverage_Pooled(ks, byKey) == PooledSamples(ks, byKey)

\* the average of one finger: sum of the pushed per-key averages / their number
FingerAverage(ks, byKey) ==
  LET total == SumOfAverages(ks, byKey)
  IN Quot(total.num, total.den * Cardinality(ks))

calculateDwellTimeByFinger(dwellByKey) ==
  LET fingerDwellTimes ==
        [f \in { getFingerForKey(k) : k \in DOMAIN dwellByKey } \ {NULL} |->
           { k \in DOMAIN dwellByKey : getFingerForKey(k) = f }]
  IN [f \in DOMAIN fingerDwellTimes |-> FingerAverage(fingerDwellTimes[f], dwellByKey)]

calculateFlightTimeByFinger(flightByKey) ==
  LET fingerFlightTimes ==
        [f \in { getFingerForKey(k) : k \in DOMAIN flightByKey } \ {NULL} |->
           { k \in DOMAIN flightByKey : getFingerForKey(k) = f }]
  IN [f \in DOMAIN fingerFlightTimes |-> FingerAverage(fingerFlightTimes[f], flightByKey)]

(***************************************************************************)
(* Digraph latency.  An object filled in insertion order is a sequence of   *)
(* its entries.                                                             *)
(***************************************************************************)
\* string.length of a key name or character of the model
StringLength(str) ==
  CASE str = "" -> 0 [] str = "Backspace" -> 9 [] str = "Shift" -> 5
    [] str = "Dead" -> 4 [] OTHER -> 1

\* isValidChar that does not ask for the ledger
isValidChar_NoLedger(event, cs) ==
  /\ "expectedChar" \in DOMAIN event
  /\ StringLength(event.expectedChar) = 1
  /\ "currentIndex" \in DOMAIN event
  /\ event.currentIndex >= 0

\* isValidChar of a keydown event: currentChar && currentChar.length === 1 &&
\* charStates && currentIndex in 0 .. charStates.length - 1 && charStates[currentIndex]
isValidChar(event, cs) ==
  /\ "expectedChar" \in DOMAIN event
  /\ StringLength(event.expectedChar) = 1
  /\ cs.present
  /\ "currentIndex" \in DOMAIN event
  /\ event.currentIndex >= 0
  /\ event.currentIndex < Len(cs.value)

\* digraphTimes[pair].times.push(flightTime), creating the entry of a new pair
PushDigraph(digraphTimes, char1, char2, flightTime) ==
  IF \E i \in 1..Len(digraphTimes) : digraphTimes[i].pair = <<char1, char2>>
    THEN [i \in 1..Len(digraphTimes) |->
            IF digraphTimes[i].pair = <<char1, char2>>
              THEN [digraphTimes[i] EXCEPT !.times = Append(@, flightTime)]
              ELSE digraphTimes[i]]
    ELSE Append(digraphTimes,
                [pair |-> <<char1, char2>>, times |-> <<flightTime>>,
                 char1 |-> char1, char2 |-> char2,
                 fromFinger |-> getFingerForKey(char1),
                 toFinger |-> getFingerForKey(char2)])

RECURSIVE DigraphScan(_, _, _, _, _)
\* the events.forEach of calculateDigraphLatency over the rest of the log
DigraphScan(evs, cs, lastKeyUpTime, lastChar, digraphTimes) ==
  IF evs = <<>> THEN digraphTimes
  ELSE LET event == Head(evs)
       IN IF event.type = "keydown"
            THEN DigraphScan(Tail(evs), cs, lastKeyUpTime,
                   IF isValidChar(event, cs) THEN event.expectedChar ELSE lastChar,
                   IF /\ lastKeyUpTime # NoKeyTime /\ lastChar # NULL
                      /\ isValidChar(event, cs)
                      /\ lastChar # "Backspace" /\ StringLength(lastChar) = 1
                     THEN PushDigraph(digraphTimes, lastChar, event.expectedChar,
                                      event.timestamp - lastKeyUpTime)
                     ELSE digraphTimes)
          ELSE IF event.type = "keyup"
            THEN DigraphScan(Tail(evs), cs,
                   IF StringLength(event.key) = 1 /\ event.key # "Backspace"
                     THEN event.timestamp ELSE lastKeyUpTime,
                   lastChar, digraphTimes)
          ELSE DigraphScan(Tail(evs), cs, lastKeyUpTime, lastChar, digraphTimes)

\* getFingerName(fingerCode)
getFingerName(fingerCode) ==
  CASE fingerCode = "LP" -> "Left Pinky" [] fingerCode = "LR" -> "Left Ring"
    [] fingerCode = "LM" -> "Left Middle" [] fingerCode = "LI" -> "Left Index"
    [] fingerCode = "LT" -> "Left Thumb" [] fingerCode = "RT" -> "Right Thumb"
    [] fingerCode = "RI" -> "Right Index" [] fingerCode = "RM" -> "Right Middle"
    [] fingerCode = "RR" -> "Right Ring" [] fingerCode = "RP" -> "Right Pinky"
    [] OTHER -> fingerCode

\* the number an item is sorted by, as a quotient
SortKey(item, field) ==
  IF field = "avgLatency" THEN Quot(item.avgLatency.sum, item.avgLatency.count)
  ELSE Quot(item[field], 1)

\* b[field] - a[field] > 0: the comparator of the sorts puts b before a
ComesFirst(b, a, field) ==
  SortKey(b, field).num * SortKey(a, field).den
    > SortKey(a, field).num * SortKey(b, field).den

RECURSIVE InsertSorted(_, _, _)
InsertSorted(sorted, item, field) ==
  IF sorted = <<>> THEN <<item>>
  ELSE IF ComesFirst(item, Head(sorted), field) THEN <<item>> \o sorted
  ELSE <<Head(sorted)>> \o InsertSorted(Tail(sorted), item, field)

\* a sort that leaves the list in insertion order
SortDescending_InsertionOrder(list, field) == list

RECURSIVE SortDescending(_, _)
\* list.sort((a, b) => b[field] - a[field]): stable, largest first
SortDescending(list, field) ==
  IF list = <<>> THEN <<>>
  ELSE InsertSorted(SortDescending(SubSeq(list, 1, Len(list) - 1), field),
                    list[Len(list)], field)

calculateDigraphLatency(evs, cs) ==
  LET digraphTimes == DigraphScan(evs, cs, NoKeyTime, NULL, <<>>)
      digraphAverages ==
        [i \in 1..Len(digraphTimes) |->
           LET data == digraphTimes[i]
           IN [pair |-> data.pair,
               char1 |-> data.char1,
               char2 |-> data.char2,
               avgLatency |-> Average(data.times),
               count |-> Len(data.times),
               fromFinger |-> data.fromFinger,
               toFinger |-> data.toFinger,
               sameFinger |-> data.fromFinger = data.toFinger /\ data.fromFinger # NULL,
               fingerChange |->
                 IF data.fromFinger # NULL /\ data.toFinger # NULL
                   THEN <<getFingerName(data.fromFinger), getFingerName(data.toFinger)>>
                   ELSE <<"Unknown">>]]
  IN SortDescending(digraphAverages, "avgLatency")

(***************************************************************************)
(* Error confusion matrix, rhythm series and shift penalty.                 *)
(***************************************************************************)
\* confusionMap[expected][actual]++, creating what is not there yet
CountConfusion(confusionMap, expected, actual) ==
  LET bump(actualMap) ==
        IF \E j \in 1..Len(actualMap) : actualMap[j].actual = actual
          THEN [j \in 1..Len(actualMap) |->
                  IF actualMap[j].actual = actual
                    THEN [actualMap[j] EXCEPT !.count = @ + 1] ELSE actualMap[j]]
          ELSE Append(actualMap, [actual |-> actual, count |-> 1])
  IN IF \E i \in 1..Len(confusionMap) : confusionMap[i].expected = expected
       THEN [i \in 1..Len(confusionMap) |->
               IF confusionMap[i].expected = expected
                 THEN [confusionMap[i] EXCEPT !.actualMap = bump(@)]
                 ELSE confusionMap[i]]
       ELSE Append(confusionMap, [expected |-> expected, actualMap |-> bump(<<>>)])

\* the entries counted as errors: every entry that ever was an error
IsConfusion_EverWrong(charState) ==
  /\ charState.status \in {"incorrect", "corrected"}
  /\ charState.char # NULL /\ charState.char # ""
  /\ charState.userBuffer # NULL /\ charState.userBuffer # ""

\* charState.status === 'incorrect' and expected && actual && expected !== actual
IsConfusion(charState) ==
  /\ charState.status = "incorrect"
  /\ charState.char # NULL /\ charState.char # ""
  /\ charState.userBuffer # NULL /\ charState.userBuffer # ""
  /\ charState.char # charState.userBuffer

RECURSIVE ConfusionScan(_, _)
\* the charStates.forEach of calculateErrorConfusionMatrix
ConfusionScan(states, confusionMap) ==
  IF states = <<>> THEN confusionMap
  ELSE LET charState == Head(states)
       IN ConfusionScan(Tail(states),
            IF IsConfusion(charState)
              THEN CountConfusion(confusionMap, charState.char, charState.userBuffer)
              ELSE confusionMap)

RECURSIVE SumCounts(_)
\* actualChars.reduce((sum, item) => sum + item.count, 0)
SumCounts(items) ==
  IF items = <<>> THEN 0 ELSE Head(items).count + SumCounts(Tail(items))

calculateErrorConfusionMatrix(cs) ==
  IF ~cs.present THEN NotAnalyzed
  ELSE LET confusionMap == ConfusionScan(cs.value, <<>>)
           confusionData ==
             SortDescending(
               [i \in 1..Len(confusionMap) |->
                  LET actualChars == SortDescending(confusionMap[i].actualMap, "count")
                  IN [expected |-> confusionMap[i].expected,
                      actualChars |-> actualChars,
                      totalErrors |-> SumCounts(actualChars)]],
               "totalErrors")
       IN IF Len(confusionData) > 0 THEN Analyzed(confusionData) ELSE NotAnalyzed

\* a clean press taken to be any single-character press at a known position
IsCleanPress_AnyStatus(event, cs) ==
  /\ "currentIndex" \in DOMAIN event
  /\ event.currentIndex >= 0 /\ event.currentIndex < Len(cs.value)
  /\ StringLength(event.key) = 1

\* currentIndex within bounds, charState.status === 'correct', event.key.length === 1
IsCleanPress(event, cs) ==
  /\ "currentIndex" \in DOMAIN event
  /\ event.currentIndex >= 0 /\ event.currentIndex < Len(cs.value)
  /\ cs.value[event.currentIndex + 1].status = "correct"
  /\ StringLength(event.key) = 1

RECURSIVE RhythmScan(_, _, _, _, _)
\* the events.forEach of calculateRhythmData over the rest of the log
RhythmScan(evs, cs, lastKeydownTime, startTime, intervals) ==
  IF evs = <<>> THEN intervals
  ELSE LET event == Head(evs)
       IN IF event.type = "keydown" /\ IsCleanPress(event, cs)
            THEN LET start == IF startTime = NoKeyTime THEN event.timestamp ELSE startTime
                 IN RhythmScan(Tail(evs), cs, event.timestamp, start,
                      IF lastKeydownTime # NoKeyTime
                        THEN Append(intervals,
                                    [sessionTime |-> event.timestamp - start,
                                     interval |-> event.timestamp - lastKeydownTime,
                                     char |-> event.expectedChar])
                        ELSE intervals)
          ELSE RhythmScan(Tail(evs), cs, lastKeydownTime, startTime, intervals)

calculateRhythmData(evs, cs) ==
  IF ~cs.present THEN NotAnalyzed
  ELSE LET intervals == RhythmScan(evs, cs, NoKeyTime, NoKeyTime, <<>>)
       IN IF Len(intervals) > 0 THEN Analyzed(intervals) ELSE NotAnalyzed

\* /[a-zA-Z]/.test(key) for a key of length 1
Letters == {"a", "b", "q", "j", "A", "B", "Q", "J"}
IsAlphabetic(key) == StringLength(key) = 1 /\ key \in Letters

\* the case of the press before the current one decides the bucket
ShiftBucket_Previous(key, previousKey) ==
  IF previousKey = ToUpperCase(previousKey) /\ previousKey # ToLowerCase(previousKey)
    THEN "uppercase"
  ELSE IF previousKey = ToLowerCase(previousKey) THEN "lowercase"
  ELSE "none"

\* key === key.toUpperCase() && key !== key.toLowerCase(), else key === key.toLowerCase()
ShiftBucket(key, previousKey) ==
  IF key = ToUpperCase(key) /\ key # ToLowerCase(key) THEN "uppercase"
  ELSE IF key = ToLowerCase(key) THEN "lowercase"
  ELSE "none"

RECURSIVE ShiftScan(_, _, _, _)
\* the events.forEach of calculateShiftPenalty; buckets[b] is the list of bucket b
ShiftScan(evs, lastKeydownTime, lastLetter, buckets) ==
  IF evs = <<>> THEN buckets
  ELSE LET event == Head(evs)
       IN IF event.type = "keydown" /\ IsAlphabetic(event.key)
            THEN ShiftScan(Tail(evs), event.timestamp, event.key,
                   IF lastKeydownTime # NoKeyTime
                        /\ ShiftBucket(event.key, lastLetter) # "none"
                     THEN [buckets EXCEPT ![ShiftBucket(event.key, lastLetter)] =
                             Append(@, event.timestamp - lastKeydownTime)]
                     ELSE buckets)
          ELSE ShiftScan(Tail(evs), lastKeydownTime, lastLetter, buckets)

\* percentSlower taken relative to the uppercase average
PercentSlower_OfUppercase(penalty, avgUppercase, avgLowercase) ==
  IF avgUppercase.num > 0
    THEN Quot(100 * penalty.num * avgUppercase.den, penalty.den * avgUppercase.num)
    ELSE Quot(0, 1)

\* avgLowercase > 0 ? (penalty / avgLowercase) * 100 : 0
PercentSlower(penalty, avgUppercase, avgLowercase) ==
  IF avgLowercase.num > 0
    THEN Quot(100 * penalty.num * avgLowercase.den, penalty.den * avgLowercase.num)
    ELSE Quot(0, 1)

\* the summary calculateShiftPenalty returns for the two interval lists
ShiftSummary(uppercaseIntervals, lowercaseIntervals) ==
  LET avgUppercase == IF Len(uppercaseIntervals) > 0
                        THEN Quot(SeqSum(uppercaseIntervals), Len(uppercaseIntervals))
                        ELSE Quot(0, 1)
      avgLowercase == IF Len(lowercaseIntervals) > 0
                        THEN Quot(SeqSum(lowercaseIntervals), Len(lowercaseIntervals))
                        ELSE Quot(0, 1)
      penalty == Quot(avgUppercase.num * avgLowercase.den
                        - avgLowercase.num * avgUppercase.den,
                      avgUppercase.den * avgLowercase.den)
  IN [avgUppercase |-> avgUppercase,
      avgLowercase |-> avgLowercase,
      penalty |-> penalty,
      percentSlower |-> PercentSlower(penalty, avgUppercase, avgLowercase),
      uppercaseCount |-> Len(uppercaseIntervals),
      lowercaseCount |-> Len(lowercaseIntervals)]

calculateShiftPenalty(evs) ==
  LET buckets == ShiftScan(evs, NoKeyTime, NULL,
                           [b \in {"uppercase", "lowercase"} |-> <<>>])
  IN IF Len(buckets["uppercase"]) = 0 /\ Len(buckets["lowercase"]) = 0
       THEN NotAnalyzed
       ELSE Analyzed(ShiftSummary(buckets["uppercase"], buckets["lowercase"]))

(***************************************************************************)
(* Statistics and the entry point.  The summary fields of the files of the  *)
(* model are those of a record that buildSessionData made (new format),     *)
(* with the two-decimal numbers in hundredths.                              *)
(***************************************************************************)
FileSummary ==
  [sessionDuration |-> 210, mechanicalCPM |-> 85714, productiveCPM |-> 57143,
   accuracy |-> 10000, totalKeystrokes |-> 3, maxIndexReached |-> 2,
   firstTimeErrors |-> {}]

\* calculateStatistics(data) for data.mechanicalCPM and data.productiveCPM defined
calculateStatistics(data) ==
  [sessionDuration |-> data.sessionDuration,
   mechanicalCPM |-> data.mechanicalCPM,
   productiveCPM |-> data.productiveCPM,
   accuracy |-> IF data.accuracy = 0 THEN 10000 ELSE data.accuracy,
   totalKeystrokes |-> data.totalKeystrokes,
   maxIndexReached |-> data.maxIndexReached,
   firstTimeErrorCount |-> Cardinality(data.firstTimeErrors)]

\* the shapes JSON.parse can give the file
FileShapes == {"record", "null", "noEvents", "eventsNotArray"}

\* the validation accepting every record that is not null
IsInvalid_OnlyNull(shape) == shape = "null"

\* !data || !data.events || !Array.isArray(data.events)
IsInvalid(shape) ==
  \/ shape = "null"
  \/ shape = "noEvents"
  \/ shape = "eventsNotArray"
  \* a Promise object has no events property
  \/ shape = "promise"

\* a session file is chosen and parsed: analyzeData(data) with data.events = file
\* what analyzeData hands to the setters for data that passed the validation
analyzeData(evs, cs) ==
  [statistics |-> Analyzed(calculateStatistics(FileSummary)),
   dwellTimeByKey |-> Analyzed(calculateDwellTimeByKey(evs)),
   dwellTimeByFinger |->
     Analyzed(calculateDwellTimeByFinger(calculateDwellTimeByKey(evs))),
   flightTimeByKey |-> Analyzed(calculateFlightTimeByKey(evs)),
   flightTimeByFinger |->
     Analyzed(calculateFlightTimeByFinger(calculateFlightTimeByKey(evs))),
   digraphLatency |-> Analyzed(calculateDigraphLatency(evs, cs)),
   errorConfusionMatrix |-> calculateErrorConfusionMatrix(cs),
   rhythmData |-> calculateRhythmData(evs, cs),
   shiftPenalty |-> calculateShiftPenalty(evs)]

\* handleFileUpload of an analysis that keeps a digraph result it already holds
handleFileUpload_KeepsDigraphs ==
  /\ analyzerSessionData' = (fileShape # "null")
  /\ IF IsInvalid(fileShape)
       THEN /\ alerted' = TRUE
            /\ UNCHANGED views
       ELSE LET results == analyzeData(file, charStates)
            IN /\ statistics' = results.statistics
               /\ dwellTimeByKey' = results.dwellTimeByKey
               /\ dwellTimeByFinger' = results.dwellTimeByFinger
               /\ flightTimeByKey' = results.flightTimeByKey
               /\ flightTimeByFinger' = results.flightTimeByFinger
               /\ digraphLatency' = IF digraphLatency.set THEN digraphLatency
                                    ELSE results.digraphLatency
               /\ errorConfusionMatrix' = results.errorConfusionMatrix
               /\ rhythmData' = results.rhythmData
               /\ shiftPenalty' = results.shiftPenalty
               /\ UNCHANGED alerted
  /\ UNCHANGED <<mode, capture, now, lastInput, handoff, upload, fetchPc, store>>

handleFileUpload ==
  /\ analyzerSessionData' = (fileShape # "null")
  /\ IF IsInvalid(fileShape)
       THEN /\ alerted' = TRUE
            /\ UNCHANGED views
       ELSE LET results == analyzeData(file, charStates)
            IN /\ statistics' = results.statistics
               /\ dwellTimeByKey' = results.dwellTimeByKey
               /\ dwellTimeByFinger' = results.dwellTimeByFinger
               /\ flightTimeByKey' = results.flightTimeByKey
               /\ flightTimeByFinger' = results.flightTimeByFinger
               /\ digraphLatency' = results.digraphLatency
               /\ errorConfusionMatrix' = results.errorConfusionMatrix
               /\ rhythmData' = results.rhythmData
               /\ shiftPenalty' = results.shiftPenalty
               /\ UNCHANGED alerted
  /\ UNCHANGED <<mode, capture, now, lastInput, handoff, upload, fetchPc, store>>

\* the Analyzer page with a session file at hand
AnalyzerInit ==
  /\ Mounted
  /\ NoStore
  /\ NoFetch
  /\ file \in Logs
  /\ fileShape = "record"
  /\ charStates = Absent
  /\ NoViews

AnalyzerNext == handleFileUpload

AnalyzerSpec == AnalyzerInit /\ [][AnalyzerNext]_vars

(***************************************************************************)
(* Logs of keys tapped one after the other, for the per-finger views: each  *)
(* tap is a Press and the Release of the same key, quick or slow.           *)
(***************************************************************************)
FingerKeys == {"a", "Q", "Dead"}
\* hold of a key and gap before its Press, in milliseconds
Paces == { [hold |-> 60, gap |-> 0], [hold |-> 150, gap |-> 90] }
FirstStamp == 1000

RECURSIVE TapLog(_, _)
\* the events of the taps typed from time t on
TapLog(taps, t) ==
  IF taps = <<>> THEN <<>>
  ELSE LET tap == Head(taps)
           down == t + tap.pace.gap
           up == down + tap.pace.hold
       IN << [type |-> "keydown", key |-> tap.key, timestamp |-> down],
             [type |-> "keyup", key |-> tap.key, timestamp |-> up] >>
            \o TapLog(Tail(taps), up)

\* the logs of at most maxLen taps
TapLogs(maxLen) ==
  { TapLog(taps, FirstStamp) :
      taps \in UNION { [1..n -> [key : FingerKeys, pace : Paces]] : n \in 0..maxLen } }

FingerInit ==
  /\ Mounted
  /\ NoStore
  /\ NoFetch
  /\ mode = "time"
  /\ file \in TapLogs(MaxTaps)
  /\ fileShape = "record"
  /\ charStates = Absent
  /\ NoViews

FingerSpec == FingerInit /\ [][AnalyzerNext]_vars

(***************************************************************************)
(* Session files as the typing test writes them: the key signals of a       *)
(* typist are put through handleKeyDown and handleKeyUp, which gives the    *)
(* event log and the ledger of the file.  The text is the start of a text   *)
(* longer than the typist gets.                                             *)
(***************************************************************************)
SessionText == [i \in 1..(MaxSignals + 1) |-> IF i % 2 = 1 THEN "a" ELSE "b"]
SignalKeys == {"a", "b", "Backspace"}
Signals == [type : {"keydown", "keyup"}, key : SignalKeys, timestamp : Stamps]

\* the refs and the cursor before the first key
Unstarted ==
  [index |-> 0, start |-> NoStamp,
   userInput |-> Fill(Len(SessionText), NULL),
   status |-> Fill(Len(SessionText), "pending"),
   events |-> <<>>]

\* handleKeyDown and handleKeyUp on the refs and the cursor
AfterSignal(st, sig) ==
  IF sig.type = "keydown"
    THEN IF st.start = NoStamp /\ sig.key # CharAt(SessionText, 0)
           THEN st
         ELSE LET start == IF st.start = NoStamp THEN sig.timestamp ELSE st.start
                  logged == Append(st.events,
                              KeyEvent("keydown", sig.key, sig.timestamp, start,
                                       st.index, SessionText))
              IN IF sig.key = "Backspace"
                   THEN [st EXCEPT !.events = logged,
                                   !.index = IF @ > 0 THEN @ - 1 ELSE @]
                 ELSE [st EXCEPT
                         !.start = start,
                         !.events = logged,
                         !.userInput[st.index + 1] = sig.key,
                         !.status[st.index + 1] =
                           StatusAfterPress(IsFirstAttempt(st.userInput, st.index),
                                            sig.key = CharAt(SessionText, st.index)),
                         !.index = @ + 1]
  ELSE IF st.start = NoStamp THEN st
  ELSE [st EXCEPT !.events =
          Append(@, KeyEvent("keyup", sig.key, sig.timestamp, st.start,
                             st.index, SessionText))]

RECURSIVE Replay(_, _)
Replay(sigs, st) ==
  IF sigs = <<>> THEN st ELSE Replay(Tail(sigs), AfterSignal(st, Head(sigs)))

\* the charStates buildSessionData makes of the refs
CharStatesOf(st) ==
  [i \in 1..Len(SessionText) |->
     [char |-> SessionText[i], userBuffer |-> st.userInput[i], status |-> st.status[i]]]

\* the sessions of at most maxLen key signals in the order of their timestamps
Sessions(maxLen) ==
  { Replay(sigs, Unstarted) :
      sigs \in UNION { { q \in [1..n -> Signals] :
                           \A i \in 1..(n - 1) : q[i].timestamp <= q[i + 1].timestamp } :
                       n \in 0..maxLen } }

\* the Analyzer with the file of a session at hand, with or without its charStates
SessionInit ==
  /\ Mounted
  /\ NoStore
  /\ NoFetch
  /\ mode = "time"
  /\ \E st \in Sessions(MaxSignals) :
       /\ file = st.events
       /\ charStates \in {Present(CharStatesOf(st)), Absent}
  /\ fileShape = "record"
  /\ NoViews

SessionSpec == SessionInit /\ [][AnalyzerNext]_vars

(***************************************************************************)
(* Ledgers for the confusion matrix: the entries a session can leave, and   *)
(* Incorrect entries a file can hold that lack a typed character or repeat  *)
(* the expected one.                                                        *)
(***************************************************************************)
CharState(char, userBuffer, st) ==
  [char |-> char, userBuffer |-> userBuffer, status |-> st]

LedgerEntries ==
  { CharState("t", NULL, "pending"),
    CharState("t", "t", "correct"),
    CharState("t", "t", "corrected"),
    CharState("t", "e", "incorrect"),
    CharState("t", "r", "incorrect"),
    CharState("t", "t", "incorrect"),
    CharState("t", NULL, "incorrect"),
    CharState("s", "e", "incorrect"),
    CharState("s", "r", "incorrect") }

\* the ledgers of at most maxLen positions
Ledgers(maxLen) == UNION { [1..n -> LedgerEntries] : n \in 0..maxLen }

\* the Analyzer with a file of no events and a ledger, or no ledger
LedgerInit ==
  /\ Mounted
  /\ NoStore
  /\ NoFetch
  /\ mode = "time"
  /\ file = <<>>
  /\ fileShape = "record"
  /\ charStates \in { Present(l) : l \in Ledgers(MaxLedger) } \cup {Absent}
  /\ NoViews

LedgerSpec == LedgerInit /\ [][AnalyzerNext]_vars

(***************************************************************************)
(* Logs for the shift penalty: Presses of a letter in both cases, of a      *)
(* digit and of Shift, and Releases.                                        *)
(***************************************************************************)
ShiftKeys == {"a", "A", "1", "Shift"}
ShiftEvents ==
  [type : {"keydown"}, key : ShiftKeys, timestamp : Stamps]
    \cup [type : {"keyup"}, key : {"A"}, timestamp : Stamps]

\* the logs of at most maxLen of these events in the order of their timestamps
ShiftLogs(maxLen) ==
  UNION { { evs \in [1..n -> ShiftEvents] :
              \A i \in 1..(n - 1) : evs[i].timestamp <= evs[i + 1].timestamp } :
          n \in 0..maxLen }

ShiftInit ==
  /\ Mounted
  /\ NoStore
  /\ NoFetch
  /\ mode = "time"
  /\ file \in ShiftLogs(MaxLogLen)
  /\ fileShape = "record"
  /\ charStates = Absent
  /\ NoViews

ShiftSpec == ShiftInit /\ [][AnalyzerNext]_vars

(***************************************************************************)
(* The Analyzer given one file after another: the results are those of an   *)
(* earlier file or none, and the file at hand is a record or malformed.     *)
(***************************************************************************)
\* the result states after the analysis of an earlier record with these events
ViewsOfEarlier(evs) ==
  LET results == analyzeData(evs, Absent)
  IN /\ analyzerSessionData = TRUE
     /\ statistics = results.statistics
     /\ dwellTimeByKey = results.dwellTimeByKey
     /\ dwellTimeByFinger = results.dwellTimeByFinger
     /\ flightTimeByKey = results.flightTimeByKey
     /\ flightTimeByFinger = results.flightTimeByFinger
     /\ digraphLatency = results.digraphLatency
     /\ errorConfusionMatrix = results.errorConfusionMatrix
     /\ rhythmData = results.rhythmData
     /\ shiftPenalty = results.shiftPenalty

UploadInit ==
  /\ Mounted
  /\ NoStore
  /\ NoFetch
  /\ mode = "time"
  /\ fileShape \in FileShapes
  /\ file \in (IF fileShape = "record" THEN TapLogs(MaxPriorTaps) ELSE {<<>>})
  /\ charStates = Absent
  /\ \/ NoViews
     \/ /\ alerted = FALSE
        /\ \E earlier \in TapLogs(MaxPriorTaps) : ViewsOfEarlier(earlier)

UploadSpec == UploadInit /\ [][AnalyzerNext]_vars

(***************************************************************************)
(* The Analyzer given the file of a session when it may already hold the    *)
(* results of an analysis: those of the same record or of another one.      *)
(***************************************************************************)
\* the result states after the analysis of a record with these events and ledger
ViewsOfRecord(evs, cs) ==
  LET results == analyzeData(evs, cs)
  IN /\ analyzerSessionData = TRUE
     /\ statistics = results.statistics
     /\ dwellTimeByKey = results.dwellTimeByKey
     /\ dwellTimeByFinger = results.dwellTimeByFinger
     /\ flightTimeByKey = results.flightTimeByKey
     /\ flightTimeByFinger = results.flightTimeByFinger
     /\ digraphLatency = results.digraphLatency
     /\ errorConfusionMatrix = results.errorConfusionMatrix
     /\ rhythmData = results.rhythmData
     /\ shiftPenalty = results.shiftPenalty

RepeatInit ==
  /\ Mounted
  /\ NoStore
  /\ NoFetch
  /\ mode = "time"
  /\ \E st \in Sessions(MaxRepeatSignals) :
       /\ file = st.events
       /\ charStates \in {Present(CharStatesOf(st)), Absent}
  /\ fileShape = "record"
  /\ \/ NoViews
     \/ /\ alerted = FALSE
        /\ \E earlier \in Sessions(MaxPriorSignals) :
             ViewsOfRecord(earlier.events, Present(CharStatesOf(earlier)))

RepeatSpec == RepeatInit /\ [][AnalyzerNext]_vars

(***************************************************************************)
(* The sessions router of the backend (backend/src/routes/sessions.js) and  *)
(* its table (backend/src/database.js): a session is created by POST and    *)
(* fetched by GET.  A column or response field that is null is SqlNull, a   *)
(* number in a nullable column is NotNull(v).                               *)
(***************************************************************************)
SqlNull == [null |-> TRUE]
NotNull(v) == [null |-> FALSE, value |-> v]

\* v || null kept as the value whatever it is
OrNull_Kept(v) == NotNull(v)

\* v || null of a number: 0 is falsy
OrNull(v) == IF v = 0 THEN SqlNull ELSE NotNull(v)

\* the fields of events and ledger entries that hold strings
StringFields == {"type", "key", "expectedChar", "char", "userBuffer", "status"}

\* JSON.parse(JSON.stringify(list)) of an array of objects: a property whose
\* value is undefined is left out; strings, finite numbers and null are kept
JsonRoundTrip(list) ==
  [i \in DOMAIN list |->
     LET obj == list[i]
         kept == { f \in DOMAIN obj : f \in StringFields => obj[f] # UNDEFINED }
     IN [f \in kept |-> obj[f]]]

\* the text of JSON.stringify(list), known by what JSON.parse makes of it
JsonStringify(list) == [parsed |-> JsonRoundTrip(list)]
JsonParse(jsonText) == jsonText.parsed

\* the fields saveSession adds to the record before it is sent
SessionWithId(rec) ==
  [f \in DOMAIN rec \cup {"sessionId", "userId", "mode", "modeValue", "timestamp"} |->
     CASE f = "sessionId" -> "session_client"
       [] f = "userId" -> "user_1"
       [] f = "mode" -> "words"
       [] f = "modeValue" -> WordCount
       [] f = "timestamp" -> "2025-01-01T00:00:00.000Z"
       [] OTHER -> rec[f]]

\* the ids of the table: the one the router gives the created session, and another
CreatedId == "session_1"
SessionIds == {CreatedId, "session_2"}

\* the records the typing test can send: the first n characters of the text
\* typed forward, some of them wrong at first, b Backspaces at the end, the
\* last press d milliseconds after the first
Bodies ==
  LET txt == <<"a", "b">>
  IN { SessionWithId(
         buildSessionData(
           txt,
           [i \in 1..Len(txt) |-> IF i <= n THEN txt[i] ELSE NULL],
           [i \in 1..Len(txt) |-> IF i <= n
                                    THEN (IF (i - 1) \in errs THEN "corrected" ELSE "correct")
                                    ELSE "pending"],
           TypedLog(txt, n, b, 1, 1 + d),
           1, 1 + d, n + 2 * Cardinality(errs) + b, n, errs, 1 + d)) :
       <<n, b, d, errs>> \in
         { q \in (0..2) \X (0..1) \X (0..MaxStoredDuration) \X SUBSET (0..1) :
             q[4] \subseteq 0..(q[1] - 1) /\ q[2] <= q[1] } }

\* the validation of router.post: a required field is missing or falsy
MissingRequired(body) ==
  \/ body.userId = "" \/ body.mode = "" \/ body.modeValue = 0
  \/ body.text = <<>> \/ body.userInput = <<>>
  \/ "events" \notin DOMAIN body
  \/ "sessionDuration" \notin DOMAIN body \/ "accuracy" \notin DOMAIN body
  \/ body.timestamp = ""

\* the values of insertSession.run, by column
InsertedRow(sessionId, body) ==
  [session_id |-> sessionId,
   user_id |-> body.userId,
   mode |-> body.mode,
   mode_value |-> body.modeValue,
   text |-> body.text,
   user_input |-> body.userInput,
   events |-> JsonStringify(body.events),
   session_duration |-> body.sessionDuration,
   accuracy |-> body.accuracy,
   max_index_reached |-> OrNull(body.maxIndexReached),
   mechanical_cpm |-> OrNull(body.mechanicalCPM),
   productive_cpm |-> OrNull(body.productiveCPM),
   char_states |-> IF "charStates" \in DOMAIN body
                     THEN JsonStringify(body.charStates) ELSE SqlNull,
   timestamp |-> body.timestamp]

\* formattedSession of a selected row
FormattedSession(session) ==
  [sessionId |-> session.session_id,
   userId |-> session.user_id,
   mode |-> session.mode,
   modeValue |-> session.mode_value,
   text |-> session.text,
   userInput |-> session.user_input,
   events |-> JsonParse(session.events),
   sessionDuration |-> session.session_duration,
   accuracy |-> session.accuracy,
   maxIndexReached |-> session.max_index_reached,
   mechanicalCPM |-> session.mechanical_cpm,
   productiveCPM |-> session.productive_cpm,
   charStates |-> IF session.char_states # SqlNull
                    THEN JsonParse(session.char_states) ELSE SqlNull,
   timestamp |-> session.timestamp]

\* router.post('/') with the user of the body in the users table
PostSession ==
  /\ row = NoRow
  /\ response.status = 0
  /\ IF MissingRequired(requestBody)
       THEN /\ response' = [status |-> 400]
            /\ UNCHANGED row
       ELSE /\ row' = InsertedRow(CreatedId, requestBody)
            /\ response' = [status |-> 201, body |-> FormattedSession(row')]
  /\ UNCHANGED <<mode, capture, now, lastInput, handoff, analysis, requestBody>>

\* router.get('/:sessionId')
GetSession(sessionId) ==
  /\ response.status # 0
  /\ IF row # NoRow /\ row.session_id = sessionId
       THEN response' = [status |-> 200, body |-> FormattedSession(row)]
       ELSE response' = [status |-> 404]
  /\ UNCHANGED <<mode, capture, now, lastInput, handoff, analysis, requestBody, row>>

StoreInit ==
  /\ Mounted
  /\ NoUpload
  /\ mode = "words"
  /\ NoFetch
  /\ requestBody \in Bodies
  /\ row = NoRow
  /\ response = NoResponse

StoreNext ==
  \/ PostSession
  \/ \E sessionId \in SessionIds : GetSession(sessionId)

StoreSpec == StoreInit /\ [][StoreNext]_vars

(***************************************************************************)
(* The capture machine in duration mode with the end of the session by the  *)
(* timer taken apart: endSession is called from the timer effect, and the   *)
(* handleKeyDown that closes over sessionActive = false is registered by    *)
(* the effect of a later render.  A render caused by a key signal or a      *)
(* button is part of the step of that signal.                               *)
(***************************************************************************)
ListenerInit ==
  /\ Init
  /\ mode = "time"

ListenerNext ==
  \/ \E sig \in PressSignals : handleKeyDown(sig[1], sig[2])
  \/ \E k \in ReleaseKeys : handleKeyUp(k)
  \/ endSession
  \/ TimerTickUnrendered
  \/ RegisterListeners
  \/ \E ok \in BOOLEAN : SaveSettled(ok)
  \/ downloadSessionData
  \/ reset

ListenerSpec == ListenerInit /\ [][ListenerNext]_vars

(***************************************************************************)
(* The Analyzer opened with the id of a stored session (?session=<id>):     *)
(* the effect on the query parameter calls getSession of AppContext, an     *)
(* async function.  file and charStates are the events and the ledger of    *)
(* the record the fetch delivers; fileShape "null" is a session that is     *)
(* neither in the backend nor in localStorage.                              *)
(***************************************************************************)
\* what the effect holds in session after const session = getSession(sessionId)
\* when getSession were a synchronous lookup
GetSessionResult_Record(shape) == shape

\* what the effect holds in session after const session = getSession(sessionId):
\* the Promise an async function returns, whatever it resolves to
GetSessionResult(shape) == "promise"

\* the effect on searchParams and getSession; sessionId is set
loadSessionFromQuery ==
  /\ fetchPc = "none"
  /\ fetchPc' = "pending"
  /\ LET session == GetSessionResult(fileShape)
     IN IF session = "null"
          THEN UNCHANGED <<analyzerSessionData, alerted, views>>
          ELSE /\ analyzerSessionData' = TRUE
               /\ IF IsInvalid(session)
                    THEN /\ alerted' = TRUE
                         /\ UNCHANGED views
                    ELSE LET results == analyzeData(file, charStates)
                         IN /\ statistics' = results.statistics
                            /\ dwellTimeByKey' = results.dwellTimeByKey
                            /\ dwellTimeByFinger' = results.dwellTimeByFinger
                            /\ flightTimeByKey' = results.flightTimeByKey
                            /\ flightTimeByFinger' = results.flightTimeByFinger
                            /\ digraphLatency' = results.digraphLatency
                            /\ errorConfusionMatrix' = results.errorConfusionMatrix
                            /\ rhythmData' = results.rhythmData
                            /\ shiftPenalty' = results.shiftPenalty
                            /\ UNCHANGED alerted
  /\ UNCHANGED <<mode, capture, now, lastInput, handoff, upload, store>>

\* the Promise of getSession settles: the session, or null, is delivered to a
\* Promise nothing awaits
getSessionSettles ==
  /\ fetchPc = "pending"
  /\ fetchPc' = "delivered"
  /\ UNCHANGED <<mode, capture, now, lastInput, handoff, upload, views, alerted,
                 analyzerSessionData, store>>

QueryInit ==
  /\ Mounted
  /\ NoStore
  /\ NoFetch
  /\ mode = "time"
  /\ fileShape \in {"record", "null"}
  /\ IF fileShape = "record"
       THEN \E st \in Sessions(MaxRepeatSignals) :
              /\ file = st.events
              /\ charStates \in {Present(CharStatesOf(st)), Absent}
       ELSE file = <<>> /\ charStates = Absent
  /\ NoViews

QueryNext ==
  \/ loadSessionFromQuery
  \/ getSessionSettles

QuerySpec == QueryInit /\ [][QueryNext]_vars

TypeOK ==
  /\ currentIndex \in 0..Len(text)
  /\ Len(userInput) = Len(text) /\ Len(status) = Len(text)
  /\ sessionActive => sessionStarted
  /\ (sessionActive /\ mode = "time") => currentIndex < Len(text)

(***************************************************************************)
(* Vocabulary of the properties.                                           *)
(***************************************************************************)
NotStarted == ~sessionStarted
Active == sessionStarted /\ sessionActive
Ended == sessionStarted /\ ~sessionActive

\* the step delivers a key-press; PressedKey and PressedMod are its key and modifier
KeyDownStep == lastInput'.type = "keydown"
PressedKey == lastInput'.key
PressedMod == lastInput'.mod
PrintableStep == KeyDownStep /\ IsPrintable(PressedKey, PressedMod)

AllPending == \A i \in 1..Len(status) : status[i] = "pending" /\ userInput[i] = NULL
FreshCapture ==
  /\ ~sessionActive /\ currentIndex = 0 /\ AllPending /\ events = <<>>
  /\ totalKeystrokes = 0 /\ maxIndexReached = 0

\* the step appends exactly one Press event of key k to the log
OnePressLogged(k) ==
  /\ Len(events') = Len(events) + 1
  /\ SubSeq(events', 1, Len(events)) = events
  /\ events'[Len(events')].type = "keydown"
  /\ events'[Len(events')].key = k

\* typed value and status of every existing position but c are kept (c = -1: all)
LedgerKeptExcept(c) ==
  \A q \in 0..(Len(userInput) - 1) :
     q # c => userInput'[q + 1] = userInput[q + 1] /\ status'[q + 1] = status[q + 1]

Abs(x) == IF x < 0 THEN -x ELSE x

\* C1: in NotStarted the capture state is fresh; a key-press starts the session
\* exactly when it is a printable character without Ctrl/Alt/Meta equal to the
\* expected character at position 0, and any other key-press changes nothing.
C1_StartOnlyOnCorrectFirstKey ==
  /\ [](NotStarted => FreshCapture)
  /\ [][ (NotStarted /\ KeyDownStep) =>
           IF IsPrintable(PressedKey, PressedMod) /\ PressedKey = CharAt(text, 0)
             THEN Active' /\ sessionStartTime' # NoStamp
             ELSE UNCHANGED capture ]_vars

\* a wrong printable key was delivered in NotStarted
C1_Witness == NotStarted /\ lastInput = Input("keydown", "b", FALSE)

\* C2: a position enters firstTimeErrors only by the first printable press applied
\* at it, and only if that press misses; no later step of the session removes it.
C2_FirstTimeErrorOnlyOnFirstAttempt ==
  [][ \A p \in firstTimeErrors \cup firstTimeErrors' :
        /\ (p \in firstTimeErrors' /\ p \notin firstTimeErrors) =>
              /\ PrintableStep
              /\ currentIndex = p
              /\ p < Len(userInput) /\ userInput[p + 1] = NULL
              /\ userInput'[p + 1] = PressedKey
              /\ PressedKey # CharAt(text, p)
        /\ (p \in firstTimeErrors /\ sessionStarted') => p \in firstTimeErrors' ]_vars

\* a first-time error that was corrected later still counts
C2_Witness == \E p \in firstTimeErrors : status[p + 1] = "corrected"

\* C3: a printable press at a position already typed sets Corrected on a hit and
\* Incorrect on a miss, and leaves maxIndexReached and firstTimeErrors alone.
C3_RetypeNeverCorrect ==
  [][ ( /\ Active /\ PrintableStep
        /\ currentIndex < Len(userInput) /\ userInput[currentIndex + 1] # NULL ) =>
       /\ status'[currentIndex + 1] =
            (IF PressedKey = CharAt(text, currentIndex) THEN "corrected" ELSE "incorrect")
       /\ maxIndexReached' = maxIndexReached
       /\ firstTimeErrors' = firstTimeErrors ]_vars

\* a position whose first attempt was correct was retyped correctly
C3_Witness ==
  \E p \in 0..(Len(status) - 1) : status[p + 1] = "corrected" /\ p \notin firstTimeErrors

\* 1 + the highest position that has a typed value, 0 when there is none
FirstAttemptFrontier ==
  LET typed == { p \in 0..(Len(userInput) - 1) : userInput[p + 1] # NULL }
  IN IF typed = {} THEN 0 ELSE 1 + (CHOOSE p \in typed : \A q \in typed : q <= p)

\* C4: maxIndexReached is 1 + the highest position that received a first attempt
\* and never decreases between the start of a session and the next reset.
C4_MaxIndexMonotone ==
  /\ [](maxIndexReached = FirstAttemptFrontier)
  /\ [][ sessionStarted' => maxIndexReached' >= maxIndexReached ]_vars

\* the cursor went back behind the frontier after at least two first attempts
C4_Witness == sessionStarted /\ maxIndexReached >= 2 /\ currentIndex < maxIndexReached - 1

\* acc (hundredths of a percent) is exactly 100 * (m - e) / m
AccuracyExact(acc, m, e) ==
  /\ acc >= 0 /\ acc <= 10000
  /\ IF m = 0 THEN acc = 10000 ELSE acc * m = 10000 * (m - e)

\* acc is 100 * (m - e) / m rounded to two decimals
AccuracyRounded(acc, m, e) ==
  /\ acc >= 0 /\ acc <= 10000
  /\ IF m = 0 THEN acc = 10000 ELSE 2 * Abs(acc * m - 10000 * (m - e)) <= m

\* C5 as stated: the live accuracy and the accuracy of the final record equal
\* 100 * (maxIndexReached - |firstTimeErrors|) / maxIndexReached, 100 at 0, in [0, 100].
C5_AccuracyExact ==
  /\ AccuracyExact(calculateAccuracy(maxIndexReached, firstTimeErrors),
                   maxIndexReached, Cardinality(firstTimeErrors))
  /\ sessionData # NoRecord =>
       AccuracyExact(sessionData.accuracy, sessionData.maxIndexReached,
                     Cardinality(sessionData.firstTimeErrors))

\* C5 amended: the accuracy is that quotient rounded to two decimals (toFixed(2)),
\* 100 when maxIndexReached is 0, and within [0, 100].
C5_AccuracyRounded ==
  /\ AccuracyRounded(calculateAccuracy(maxIndexReached, firstTimeErrors),
                     maxIndexReached, Cardinality(firstTimeErrors))
  /\ sessionData # NoRecord =>
       AccuracyRounded(sessionData.accuracy, sessionData.maxIndexReached,
                       Cardinality(sessionData.firstTimeErrors))

\* a final record with one first-time error in three positions (66.67)
C5_Witness ==
  /\ sessionData # NoRecord
  /\ sessionData.maxIndexReached = 3
  /\ Cardinality(sessionData.firstTimeErrors) = 1
  /\ sessionData.accuracy = 6667

\* C6: a printable press applied in Active at a cursor c not yet typed sets typed[c]
\* to the key and status[c] to Correct or Incorrect, raises maxIndexReached to
\* max(maxIndexReached, c+1), advances the cursor, counts one keystroke, logs one
\* Press event, and changes no other position.
C6_FirstAttemptPress ==
  [][ ( /\ Active /\ PrintableStep
        /\ currentIndex < Len(userInput) /\ userInput[currentIndex + 1] = NULL ) =>
       /\ userInput'[currentIndex + 1] = PressedKey
       /\ status'[currentIndex + 1] =
            (IF PressedKey = CharAt(text, currentIndex) THEN "correct" ELSE "incorrect")
       /\ maxIndexReached' = Max(maxIndexReached, currentIndex + 1)
       /\ currentIndex' = currentIndex + 1
       /\ totalKeystrokes' = totalKeystrokes + 1
       /\ OnePressLogged(PressedKey)
       /\ LedgerKeptExcept(currentIndex) ]_vars

\* the last press was a first attempt at position 1 and hit
C6_Witness ==
  /\ Active /\ lastInput = Input("keydown", "b", FALSE)
  /\ currentIndex = 2 /\ maxIndexReached = 2 /\ status[2] = "correct"

\* the completion guard of handleKeyDown discards every press
TextCompleted == mode = "words" /\ currentIndex >= Len(text)

\* the effects of a Backspace press on a cursor past 0
BackspaceEffects ==
  /\ currentIndex' = currentIndex - 1
  /\ totalKeystrokes' = totalKeystrokes + 1
  /\ OnePressLogged("Backspace")
  /\ LedgerKeptExcept(-1)
  /\ maxIndexReached' = maxIndexReached
  /\ firstTimeErrors' = firstTimeErrors

\* C7, short of the completed text: a Backspace press in Active with cursor > 0
\* that the completion guard does not discard has the effects of C7.
C7_BackspaceRetreatsBeforeCompletion ==
  [][ ( /\ Active /\ ~TextCompleted
        /\ KeyDownStep /\ PressedKey = "Backspace" /\ currentIndex > 0 ) =>
       BackspaceEffects ]_vars

\* C7: a Backspace press in Active with cursor > 0 moves the cursor back by one,
\* counts one keystroke, logs one Press event and leaves every ledger position,
\* maxIndexReached and firstTimeErrors unchanged.
C7_BackspaceRetreats ==
  [][ (Active /\ KeyDownStep /\ PressedKey = "Backspace" /\ currentIndex > 0) =>
       /\ currentIndex' = currentIndex - 1
       /\ totalKeystrokes' = totalKeystrokes + 1
       /\ OnePressLogged("Backspace")
       /\ LedgerKeptExcept(-1)
       /\ maxIndexReached' = maxIndexReached
       /\ firstTimeErrors' = firstTimeErrors ]_vars

\* a Backspace left position 1 with its typed value and its Incorrect status
C7_Witness ==
  /\ Active /\ lastInput = Input("keydown", "Backspace", FALSE)
  /\ currentIndex = 1 /\ maxIndexReached = 2
  /\ userInput[2] = "a" /\ status[2] = "incorrect"

C9_RecordEventsFrozen ==
  [][ (Ended /\ Ended') =>
        /\ events' = events
        /\ sessionData'.events = sessionData.events ]_vars

\* the indexes of the Press events of a log
PressIndexes(evs) == { i \in 1..Len(evs) : evs[i].type = "keydown" }

LastOfKeyBefore(evs, i) ==
  LET S == { j \in 1..(i - 1) : evs[j].key = evs[i].key }
  IN IF S = {} THEN 0 ELSE CHOOSE j \in S : \A h \in S : h <= j

\* C11: every Release event of the log that follows the Press of its key carries
\* the cursor position and the expected character of that Press event.
C11_ReleaseCarriesPressContext ==
  \A i \in 1..Len(events) :
     LET j == LastOfKeyBefore(events, i)
     IN (events[i].type = "keyup" /\ j > 0 /\ events[j].type = "keydown") =>
          /\ events[i].currentIndex = events[j].currentIndex
          /\ events[i].expectedChar = events[j].expectedChar

\* a key-press that does not act on the ledger: neither Backspace nor a printable
\* character without Ctrl/Alt/Meta
IgnoredKey(k, m) == k # "Backspace" /\ ~IsPrintable(k, m)

\* C12: a key-press of an ignored key (modifier-only, multi-character key other
\* than Backspace, printable with Ctrl/Alt/Meta) leaves the event log and the
\* last-keystroke time as they were, in every session state.
C12_IgnoredKeyLeavesNoTrace ==
  [][ (KeyDownStep /\ IgnoredKey(PressedKey, PressedMod)) =>
        UNCHANGED <<events, lastKeystrokeTime>> ]_vars

\* C13: in Active a key-press that is neither Backspace nor a printable character
\* without Ctrl/Alt/Meta leaves the cursor, the typed value and status of every
\* ledger position, totalKeystrokes, maxIndexReached and firstTimeErrors unchanged.
C13_OtherKeysLeaveLedger ==
  [][ (Active /\ KeyDownStep /\ IgnoredKey(PressedKey, PressedMod)) =>
        /\ currentIndex' = currentIndex
        /\ LedgerKeptExcept(-1)
        /\ UNCHANGED <<totalKeystrokes, maxIndexReached, firstTimeErrors>> ]_vars

\* a Shift press was accepted in Active (it is the last event of the log) with
\* one position typed
C13_Witness ==
  /\ Active /\ lastInput = Input("keydown", "Shift", FALSE)
  /\ events # <<>> /\ events[Len(events)].key = "Shift"
  /\ currentIndex = 1 /\ totalKeystrokes = 1 /\ maxIndexReached = 1

\* the step is a key-press that handleKeyDown applied (it logged a Press event)
AppliedPress == KeyDownStep /\ Len(events') = Len(events) + 1

\* C14: in duration mode an applied key-press extends the text exactly when the
\* cursor is within the lookahead of its end; the extension keeps the expected
\* character of every old position and the typed value and status of every old
\* position but the one the same press types at, every added ledger entry is
\* Pending with typed absent, and the ledger is as long as the text before and
\* after.
C14_ExtensionKeepsPositions ==
  /\ [](Len(userInput) = Len(text) /\ Len(status) = Len(text))
  /\ [][ (mode = "time" /\ AppliedPress) =>
          /\ (Len(text') # Len(text)) <=> (currentIndex > Len(text) - Lookahead)
          /\ Len(text') >= Len(text)
          /\ SubSeq(text', 1, Len(text)) = text
          /\ LedgerKeptExcept(IF PrintableStep THEN currentIndex ELSE -1)
          /\ \A q \in (Len(text) + 1)..Len(text') :
                userInput'[q] = NULL /\ status'[q] = "pending" ]_vars

\* the text was extended once: old positions hold what was typed, the added
\* ones are Pending
C14_Witness ==
  /\ mode = "time" /\ Active /\ Len(text) = 5
  /\ userInput[1] = "a" /\ userInput[2] = "a" /\ status[2] = "incorrect"
  /\ userInput[3] = NULL /\ status[5] = "pending"

\* C15: in duration mode timeRemaining is the configured limit when the session
\* becomes Active, is positive and never increases while the session is Active,
\* the session is Ended in the state where it reaches 0, and, the tick firing
\* while it is armed, every Active session leaves Active (by expiry at the
\* latest) whatever key signals arrive.
C15_TimerEndsSession ==
  /\ [][ (mode = "time" /\ NotStarted /\ Active') => timeRemaining' = TimeLimit ]_vars
  /\ [][ (mode = "time" /\ Active /\ Active') => timeRemaining' <= timeRemaining ]_vars
  /\ []((mode = "time" /\ Active) => timeRemaining > 0)
  /\ []((mode = "time" /\ sessionStarted /\ timeRemaining = 0) => Ended)
  /\ ((mode = "time" /\ Active) ~> ~Active)

\* the timer ran out (not the End Session button) on a session with a full log
C15_Witness ==
  /\ mode = "time" /\ Ended /\ timeRemaining = 0
  /\ sessionData # NoRecord /\ Len(events) = MaxEvents

\* C16: in word-count mode, for every generated text, the session of a typist
\* who types forward through all of its characters goes from Active to Ended
\* without the end signal.
C16_WordCountEndsSession == (mode = "words" /\ Active) ~> Ended

\* the capture state of a session nobody has typed in
FreshSession ==
  /\ ~sessionActive /\ currentIndex = 0
  /\ AllPending /\ Len(userInput) = Len(text) /\ Len(status) = Len(text)
  /\ events = <<>> /\ totalKeystrokes = 0 /\ maxIndexReached = 0
  /\ firstTimeErrors = {}
  /\ sessionStartTime = NoStamp /\ lastKeystrokeTime = NoStamp

\* C17: every step that lands in NotStarted (the reset, from NotStarted, Active
\* or Ended) lands in a fresh session: cursor 0, every entry Pending with typed
\* absent, ledger as long as the text, empty log, counters 0, no first-time
\* errors, both times cleared; a step into any other state removes no ledger
\* position, no typed value and no status.
C17_ResetYieldsFreshSession ==
  /\ [](NotStarted => FreshSession)
  /\ [][ sessionStarted' =>
          \A q \in 1..Len(userInput) :
             /\ q <= Len(userInput') /\ q <= Len(status')
             /\ userInput[q] # NULL => userInput'[q] # NULL
             /\ status[q] # "pending" => status'[q] # "pending" ]_vars

\* a session was typed in (the clock has moved) and then reset
C17_Witness == NotStarted /\ now > 1 /\ lastInput = NoInput

\* C18: every position below maxIndexReached has a typed value, and the userInput
\* of the final record is the sequence of the typed values of positions
\* 0 .. maxIndexReached-1 in order, so its length is maxIndexReached.
C18_TypedTextIsForwardView ==
  /\ \A q \in 1..maxIndexReached : q <= Len(userInput) /\ userInput[q] # NULL
  /\ sessionData # NoRecord =>
       /\ Len(sessionData.userInput) = sessionData.maxIndexReached
       /\ \A q \in 1..sessionData.maxIndexReached :
             /\ sessionData.charStates[q].userBuffer # NULL
             /\ sessionData.userInput[q] = sessionData.charStates[q].userBuffer
             /\ sessionData.userInput[q] = userInput[q]

\* a final record whose typed text keeps a miss and stops at the frontier, with
\* the cursor behind it
C18_Witness ==
  /\ sessionData # NoRecord /\ Ended
  /\ sessionData.userInput = <<"a", "a">>
  /\ Len(sessionData.text) > 2
  /\ currentIndex = 1

\* cpm (hundredths) is exactly count / (d / 60000), 0 when d is 0
CpmExact(cpm, count, d) ==
  IF d > 0 THEN cpm * d = count * 6000000 ELSE cpm = 0

\* cpm (hundredths) is count / (d / 60000) rounded to two decimals, 0 when d is 0
CpmRounded(cpm, count, d) ==
  IF d > 0 THEN 2 * Abs(cpm * d - count * 6000000) <= d ELSE cpm = 0

\* C19 as stated: in the final record mechanicalCPM = totalKeystrokes /
\* (sessionDuration / 60000) and productiveCPM = maxIndexReached /
\* (sessionDuration / 60000), both 0 when sessionDuration is 0.
C19_CpmExact ==
  sessionData # NoRecord =>
    /\ sessionData.sessionDuration >= 0
    /\ CpmExact(sessionData.mechanicalCPM, sessionData.totalKeystrokes,
                sessionData.sessionDuration)
    /\ CpmExact(sessionData.productiveCPM, sessionData.maxIndexReached,
                sessionData.sessionDuration)

\* C19 amended: both figures are those quotients rounded to two decimals
\* (toFixed(2)), and both are 0 when sessionDuration is 0.
C19_CpmRounded ==
  sessionData # NoRecord =>
    /\ sessionData.sessionDuration >= 0
    /\ CpmRounded(sessionData.mechanicalCPM, sessionData.totalKeystrokes,
                  sessionData.sessionDuration)
    /\ CpmRounded(sessionData.productiveCPM, sessionData.maxIndexReached,
                  sessionData.sessionDuration)

\* three keystrokes, two positions reached, 7 ms: 25714.29 and 17142.86
C19_Witness ==
  /\ sessionData # NoRecord
  /\ sessionData.sessionDuration = 7
  /\ sessionData.totalKeystrokes = 3 /\ sessionData.maxIndexReached = 2
  /\ sessionData.mechanicalCPM = 2571429
  /\ sessionData.productiveCPM = 1714286

\* the Release events of key k that have a pending Press: the event of k that
\* comes last before them is a Press
MatchedReleases(evs, k) ==
  { i \in 1..Len(evs) :
      /\ evs[i].type = "keyup" /\ evs[i].key = k
      /\ LastOfKeyBefore(evs, i) > 0
      /\ evs[LastOfKeyBefore(evs, i)].type = "keydown" }

\* the dwell sample of a matched Release
DwellSample(evs, i) == evs[i].timestamp - evs[LastOfKeyBefore(evs, i)].timestamp

RECURSIVE SumOver(_, _)
SumOver(evs, I) ==
  IF I = {} THEN 0
  ELSE LET i == CHOOSE x \in I : TRUE
       IN DwellSample(evs, i) + SumOver(evs, I \ {i})

\* C20: the dwell result has a key exactly when one of its Releases has a pending
\* Press (the last Press of the key, with no Release of it in between); each
\* such Release gives the sample release.timestamp - press.timestamp, a Release
\* without pending Press gives none, no Press gives more than one sample, and
\* the result of a key is the mean of its samples (press at 1000, release at
\* 1150: 150).
C20_DwellByKey ==
  dwellTimeByKey.set =>
    LET result == dwellTimeByKey.value
    IN /\ DOMAIN result = { k \in AnalyzerKeys : MatchedReleases(file, k) # {} }
       /\ \A k \in DOMAIN result :
            /\ result[k].count = Cardinality(MatchedReleases(file, k))
            /\ result[k].sum = SumOver(file, MatchedReleases(file, k))
            /\ result[k].count <=
                 Cardinality({ j \in 1..Len(file) :
                                 file[j].type = "keydown" /\ file[j].key = k })
       /\ (file = << [type |-> "keydown", key |-> "a", timestamp |-> 1000],
                     [type |-> "keyup", key |-> "a", timestamp |-> 1150] >>)
            => result = [k \in {"a"} |-> [sum |-> 150, count |-> 1]]

\* a log with two matched Releases of one key: the mean of the samples 150 and 60
C20_Witness ==
  /\ dwellTimeByKey.set
  /\ file = << [type |-> "keydown", key |-> "a", timestamp |-> 1000],
               [type |-> "keyup", key |-> "a", timestamp |-> 1150],
               [type |-> "keydown", key |-> "a", timestamp |-> 1150],
               [type |-> "keyup", key |-> "a", timestamp |-> 1210] >>
  /\ dwellTimeByKey.value = [k \in {"a"} |-> [sum |-> 210, count |-> 2]]

\* the Presses of a log that come after at least one Release
PressesAfterRelease(evs) ==
  { j \in 1..Len(evs) : /\ evs[j].type = "keydown"
                        /\ \E i \in 1..(j - 1) : evs[i].type = "keyup" }

\* the most recent Release before event j
LastReleaseBefore(evs, j) ==
  CHOOSE i \in 1..(j - 1) :
    /\ evs[i].type = "keyup"
    /\ \A m \in (i + 1)..(j - 1) : evs[m].type # "keyup"

RECURSIVE FlightSumOver(_, _)
\* the sum of press.timestamp - (timestamp of the most recent Release) over the Presses J
FlightSumOver(evs, J) ==
  IF J = {} THEN 0
  ELSE LET j == CHOOSE x \in J : TRUE
       IN (evs[j].timestamp - evs[LastReleaseBefore(evs, j)].timestamp)
            + FlightSumOver(evs, J \ {j})

RECURSIVE SamplesOver(_, _)
\* the number of samples behind the means of the keys ks
SamplesOver(result, ks) ==
  IF ks = {} THEN 0
  ELSE LET k == CHOOSE x \in ks : TRUE
       IN result[k].count + SamplesOver(result, ks \ {k})

\* C21: flight-by-key gives every Press that comes after at least one Release
\* the sample press.timestamp - (timestamp of the most recent Release), under
\* the key of that Press; a Press does not move the remembered release time;
\* the result of a key is the mean of its samples, the samples are as many as
\* the Presses after the first Release, and release(k1) = 1100, press(k2) = 1180
\* gives 80 under k2.
C21_FlightByKey ==
  /\ flightTimeByKey.set =>
       LET result == flightTimeByKey.value
           late == PressesAfterRelease(file)
       IN /\ DOMAIN result = { file[j].key : j \in late }
          /\ \A k \in DOMAIN result :
               /\ result[k].count = Cardinality({ j \in late : file[j].key = k })
               /\ result[k].sum = FlightSumOver(file, { j \in late : file[j].key = k })
          /\ Cardinality(late) = SamplesOver(result, DOMAIN result)
  /\ calculateFlightTimeByKey(
       << [type |-> "keyup", key |-> "a", timestamp |-> 1100],
          [type |-> "keydown", key |-> "b", timestamp |-> 1180] >>)
       = [k \in {"b"} |-> [sum |-> 80, count |-> 1]]

\* two Presses of one key after one Release: both samples run from that Release
C21_Witness ==
  /\ flightTimeByKey.set
  /\ file = << [type |-> "keyup", key |-> "a", timestamp |-> 1000],
               [type |-> "keydown", key |-> "b", timestamp |-> 1150],
               [type |-> "keydown", key |-> "b", timestamp |-> 1210] >>
  /\ flightTimeByKey.value = [k \in {"b"} |-> [sum |-> 360, count |-> 2]]

\* the keys of a per-key result that the finger table lists under finger f
KeysOfFinger(byKey, f) ==
  { k \in DOMAIN byKey : \E x \in fingerMap[f] : ToLowerCase(x) = ToLowerCase(k) }

RECURSIVE CountProduct(_, _)
\* the product of the sample counts of the keys ks
CountProduct(byKey, ks) ==
  IF ks = {} THEN 1
  ELSE LET k == CHOOSE x \in ks : TRUE
       IN byKey[k].count * CountProduct(byKey, ks \ {k})

RECURSIVE ScaledMeans(_, _, _)
\* scale times the sum of the per-key means of the keys ks
ScaledMeans(byKey, ks, scale) ==
  IF ks = {} THEN 0
  ELSE LET k == CHOOSE x \in ks : TRUE
       IN byKey[k].sum * (scale \div byKey[k].count)
            + ScaledMeans(byKey, ks \ {k}, scale)

\* byFinger holds, for exactly the fingers with a key in byKey, the unweighted
\* mean of the per-key means of these keys
IsMeanOfKeyMeans(byFinger, byKey) ==
  /\ DOMAIN byFinger = { f \in Fingers : KeysOfFinger(byKey, f) # {} }
  /\ \A f \in DOMAIN byFinger :
       LET ks == KeysOfFinger(byKey, f)
           scale == CountProduct(byKey, ks)
       IN byFinger[f].num * (Cardinality(ks) * scale)
            = byFinger[f].den * ScaledMeans(byKey, ks, scale)

\* C22: per-finger dwell and per-finger flight are both the unweighted mean of
\* the per-key means of the keys the table maps to the finger, not the mean of
\* the raw samples; a key without entry in the table counts for no finger and
\* a finger without such a key is absent from the result.
C22_FingerMeanOfKeyMeans ==
  /\ dwellTimeByFinger.set =>
       IsMeanOfKeyMeans(dwellTimeByFinger.value, dwellTimeByKey.value)
  /\ flightTimeByFinger.set =>
       IsMeanOfKeyMeans(flightTimeByFinger.value, flightTimeByKey.value)

\* "a" held 60, 150, 60 and gapped 90, 0; "Q" held 150 after a gap of 90; then
\* the unlisted key: the left pinky has dwell (90 + 150) / 2 and flight (45 + 90) / 2
C22_Witness ==
  /\ dwellTimeByFinger.set /\ flightTimeByFinger.set
  /\ DOMAIN dwellTimeByKey.value = {"a", "Q", "Dead"}
  /\ DOMAIN flightTimeByKey.value = {"a", "Q", "Dead"}
  /\ dwellTimeByKey.value["a"] = [sum |-> 270, count |-> 3]
  /\ flightTimeByKey.value["a"] = [sum |-> 90, count |-> 2]
  /\ DOMAIN dwellTimeByFinger.value = {"LP"}
  /\ dwellTimeByFinger.value["LP"].num = 120 * dwellTimeByFinger.value["LP"].den
  /\ 2 * flightTimeByFinger.value["LP"].num = 135 * flightTimeByFinger.value["LP"].den

\* the sample lists the scan of the log has collected, pair by pair
DigraphSamples == DigraphScan(file, charStates, NoKeyTime, NULL, <<>>)

\* the log of a b a b typed with latencies 80 (a b), 50 (b a) and 120 (a b)
ExampleDigraphLog ==
  << KeyEvent("keydown", "a", 1000, 1000, 0, SessionText),
     KeyEvent("keyup", "a", 1000, 1000, 1, SessionText),
     KeyEvent("keydown", "b", 1080, 1000, 1, SessionText),
     KeyEvent("keyup", "b", 1100, 1000, 2, SessionText),
     KeyEvent("keydown", "a", 1150, 1000, 2, SessionText),
     KeyEvent("keyup", "a", 1180, 1000, 3, SessionText),
     KeyEvent("keydown", "b", 1300, 1000, 3, SessionText) >>

\* C23: the digraph result has one entry per ordered pair that has samples, with
\* avgLatency the arithmetic mean of the samples of the pair and count their
\* number (80 and 120 give mean 100, count 2), and the list is ordered by
\* avgLatency non-increasing, slowest first, for every input.
C23_DigraphMeansSorted ==
  /\ digraphLatency.set =>
       LET list == digraphLatency.value
       IN /\ Len(list) = Len(DigraphSamples)
          /\ \A i, j \in 1..Len(list) : list[i].pair = list[j].pair => i = j
          /\ \A n \in 1..Len(DigraphSamples) :
               \E i \in 1..Len(list) :
                 /\ list[i].pair = DigraphSamples[n].pair
                 /\ list[i].avgLatency.sum = SeqSum(DigraphSamples[n].times)
                 /\ list[i].avgLatency.count = Len(DigraphSamples[n].times)
                 /\ list[i].count = Len(DigraphSamples[n].times)
          /\ \A i, j \in 1..Len(list) :
               i < j => list[i].avgLatency.sum * list[j].avgLatency.count
                          >= list[j].avgLatency.sum * list[i].avgLatency.count
  /\ LET list == calculateDigraphLatency(ExampleDigraphLog,
                                         Present(CharStatesOf(Unstarted)))
     IN /\ Len(list) = 2
        /\ list[1].pair = <<"a", "b">>
        /\ list[1].avgLatency = [sum |-> 200, count |-> 2]
        /\ list[1].count = 2
        /\ list[2].pair = <<"b", "a">>

\* a b a b with latencies 0, 150, 210: the pair b a (150) was met after the
\* pair a b (mean 105 of two samples) and comes first
C23_Witness ==
  /\ digraphLatency.set
  /\ Len(digraphLatency.value) = 2
  /\ digraphLatency.value[1].pair = <<"b", "a">>
  /\ digraphLatency.value[1].avgLatency = [sum |-> 150, count |-> 1]
  /\ digraphLatency.value[2].pair = <<"a", "b">>
  /\ digraphLatency.value[2].avgLatency = [sum |-> 210, count |-> 2]

\* the log without its Backspace Presses
RECURSIVE WithoutBackspacePresses(_)
WithoutBackspacePresses(evs) ==
  IF evs = <<>> THEN <<>>
  ELSE IF Head(evs).type = "keydown" /\ Head(evs).key = "Backspace"
    THEN WithoutBackspacePresses(Tail(evs))
  ELSE <<Head(evs)>> \o WithoutBackspacePresses(Tail(evs))

\* C24: a Backspace press takes no part in a digraph: it gives no sample as the
\* current character and is not the prior character of a later pair, so the
\* digraph result is the one of the same log without its Backspace presses.
C24_BackspaceOutsideDigraphs ==
  digraphLatency.set =>
    digraphLatency.value
      = calculateDigraphLatency(WithoutBackspacePresses(file), charStates)

\* event j is a Press the scan takes for a valid character
IsValidPress(evs, cs, j) == evs[j].type = "keydown" /\ isValidChar(evs[j], cs)

\* the valid Press before event j: the Press of the prior character
PriorValidPress(evs, cs, j) ==
  CHOOSE i \in 1..(j - 1) :
    /\ IsValidPress(evs, cs, i)
    /\ \A m \in (i + 1)..(j - 1) : ~IsValidPress(evs, cs, m)

\* the Presses that give a digraph sample: valid, after a valid Press and
\* after the Release of a character key
SamplingPresses(evs, cs) ==
  { j \in 1..Len(evs) :
      /\ IsValidPress(evs, cs, j)
      /\ \E i \in 1..(j - 1) : IsValidPress(evs, cs, i)
      /\ \E r \in 1..(j - 1) : evs[r].type = "keyup" /\ StringLength(evs[r].key) = 1 }

\* the Releases of the key of Press i after it; the first is the matching one
ReleasesOf(evs, i) ==
  { r \in (i + 1)..Len(evs) : evs[r].type = "keyup" /\ evs[r].key = evs[i].key }

MatchingRelease(evs, i) ==
  CHOOSE r \in ReleasesOf(evs, i) : \A q \in ReleasesOf(evs, i) : r <= q

RECURSIVE LatencySumOver(_, _, _)
\* the sum of press(c2).timestamp - (matching Release of the Press of c1).timestamp
LatencySumOver(evs, cs, J) ==
  IF J = {} THEN 0
  ELSE LET j == CHOOSE x \in J : TRUE
       IN (evs[j].timestamp
             - evs[MatchingRelease(evs, PriorValidPress(evs, cs, j))].timestamp)
            + LatencySumOver(evs, cs, J \ {j})

\* C25: every digraph sample of a pair (c1, c2) is the timestamp of the Press
\* of c2 minus the timestamp of the Release that matches the Press of c1, in
\* every event order, overlapping presses included; stated for the pairs whose
\* prior Presses all have a Release in the log.
C25_LatencyFromMatchingRelease ==
  digraphLatency.set =>
    \A n \in 1..Len(digraphLatency.value) :
      LET entry == digraphLatency.value[n]
          J == { j \in SamplingPresses(file, charStates) :
                   <<file[PriorValidPress(file, charStates, j)].expectedChar,
                     file[j].expectedChar>> = entry.pair }
      IN (\A j \in J : ReleasesOf(file, PriorValidPress(file, charStates, j)) # {})
           => entry.avgLatency.sum = LatencySumOver(file, charStates, J)

\* the number of entries of the ledger with final status Incorrect, expected e
\* and typed a, both present and different
Confusions(ledgerStates, e, a) ==
  Cardinality({ i \in 1..Len(ledgerStates) :
                  /\ ledgerStates[i].status = "incorrect"
                  /\ ledgerStates[i].char = e /\ ledgerStates[i].userBuffer = a
                  /\ e # NULL /\ a # NULL /\ e # a })

LedgerChars == {"t", "s", "e", "r"}

\* the list is the confusion matrix of the ledger
IsConfusionMatrix(list, ledgerStates) ==
  /\ \A i, j \in 1..Len(list) : list[i].expected = list[j].expected => i = j
  /\ \A e, a \in LedgerChars :
       Confusions(ledgerStates, e, a) > 0 <=>
         \E i \in 1..Len(list) : \E n \in 1..Len(list[i].actualChars) :
           /\ list[i].expected = e
           /\ list[i].actualChars[n].actual = a
  /\ \A i \in 1..Len(list) :
       LET alts == list[i].actualChars
       IN /\ Len(alts) > 0
          /\ \A n, m \in 1..Len(alts) : alts[n].actual = alts[m].actual => n = m
          /\ \A n \in 1..Len(alts) :
               alts[n].count = Confusions(ledgerStates, list[i].expected, alts[n].actual)
          /\ list[i].totalErrors = SeqSum([n \in 1..Len(alts) |-> alts[n].count])
          /\ \A n, m \in 1..Len(alts) : n < m => alts[n].count >= alts[m].count
  /\ \A i, j \in 1..Len(list) : i < j => list[i].totalErrors >= list[j].totalErrors

IsCleanIndex(j) ==
  /\ file[j].type = "keydown"
  /\ file[j].key \notin {"Backspace", "Shift", "Dead", ""}
  /\ file[j].currentIndex < Len(charStates.value)
  /\ charStates.value[file[j].currentIndex + 1].status = "correct"

\* the clean presses of the file in log order
CleanPresses == SelectSeq([j \in 1..Len(file) |-> j], IsCleanIndex)

\* C27: the rhythm series has a sample only for a clean press (single-character
\* key, final status of its position Correct): every clean press after the
\* first gives interval = its timestamp - the timestamp of the clean press
\* before it and sessionTime = its timestamp - the timestamp of the first clean
\* press; a press at a position that ends Incorrect, Corrected or Pending gives
\* no sample and starts no interval; with fewer than 2 clean presses the
\* result is absent.
C27_RhythmOfCleanPresses ==
  (statistics.set /\ charStates.present) =>
    IF Len(CleanPresses) < 2 THEN rhythmData = NotAnalyzed
    ELSE /\ rhythmData.set
         /\ Len(rhythmData.value) = Len(CleanPresses) - 1
         /\ \A n \in 1..Len(rhythmData.value) :
              LET press == file[CleanPresses[n + 1]]
              IN /\ rhythmData.value[n].interval
                      = press.timestamp - file[CleanPresses[n]].timestamp
                 /\ rhythmData.value[n].sessionTime
                      = press.timestamp - file[CleanPresses[1]].timestamp
                 /\ rhythmData.value[n].char = press.expectedChar

\* a at 1000 (clean), a at 1000 where b is expected (Incorrect), a at 1150 and
\* b at 1210 (clean): two samples, none for or from the incorrect press
C27_Witness ==
  /\ charStates.present
  /\ charStates.value[2].status = "incorrect"
  /\ Len(file) = 4
  /\ \A j \in 1..4 : file[j].type = "keydown"
  /\ file[2].timestamp = 1000
  /\ rhythmData = Analyzed(<< [sessionTime |-> 150, interval |-> 150, char |-> "a"],
                              [sessionTime |-> 210, interval |-> 60, char |-> "b"] >>)

UpperLetters == {"A", "B", "Q", "J"}
LowerLetters == {"a", "b", "q", "j"}

\* event j of the file is the Press of a single alphabetic character
IsLetterPress(j) ==
  file[j].type = "keydown" /\ file[j].key \in UpperLetters \cup LowerLetters

\* the letter Presses of the file in log order, and for each but the first its
\* key and the interval from the letter Press before it
LetterPresses == SelectSeq([j \in 1..Len(file) |-> j], IsLetterPress)
LetterIntervals ==
  [n \in 1..(Len(LetterPresses) - 1) |->
     [key |-> file[LetterPresses[n + 1]].key,
      interval |-> file[LetterPresses[n + 1]].timestamp
                     - file[LetterPresses[n]].timestamp]]

RECURSIVE BucketOf(_, _)
\* sum and number of the intervals whose current character is one of letters
BucketOf(intervals, letters) ==
  IF intervals = <<>> THEN [sum |-> 0, count |-> 0]
  ELSE LET rest == BucketOf(Tail(intervals), letters)
       IN IF Head(intervals).key \in letters
            THEN [sum |-> rest.sum + Head(intervals).interval, count |-> rest.count + 1]
            ELSE rest

UpperBucket == BucketOf(LetterIntervals, UpperLetters)
LowerBucket == BucketOf(LetterIntervals, LowerLetters)

\* the quotient q is the mean of the bucket
IsMeanOf(q, bucket) == q.num * bucket.count = bucket.sum * q.den

\* buckets, both means and the penalty as the claim has them; the result is
\* absent when both buckets are empty
ShiftMeansAndPenalty ==
  IF UpperBucket.count = 0 /\ LowerBucket.count = 0 THEN shiftPenalty = NotAnalyzed
  ELSE /\ shiftPenalty.set
       /\ shiftPenalty.value.uppercaseCount = UpperBucket.count
       /\ shiftPenalty.value.lowercaseCount = LowerBucket.count
       /\ UpperBucket.count > 0 => IsMeanOf(shiftPenalty.value.avgUppercase, UpperBucket)
       /\ LowerBucket.count > 0 => IsMeanOf(shiftPenalty.value.avgLowercase, LowerBucket)
       /\ LET r == shiftPenalty.value
          IN r.penalty.num * r.avgUppercase.den * r.avgLowercase.den
               = (r.avgUppercase.num * r.avgLowercase.den
                    - r.avgLowercase.num * r.avgUppercase.den) * r.penalty.den

\* percentSlower * lowercase mean = 100 * penalty
IsPercentOfLowercase(r) ==
  r.percentSlower.num * r.avgLowercase.num * r.penalty.den
    = 100 * r.penalty.num * r.percentSlower.den * r.avgLowercase.den

\* uppercase [200, 220], lowercase [100, 120, 110]: 210, 110, penalty 100
ShiftExample ==
  LET r == ShiftSummary(<<200, 220>>, <<100, 120, 110>>)
  IN /\ r.avgUppercase.num = 210 * r.avgUppercase.den
     /\ r.avgLowercase.num = 110 * r.avgLowercase.den
     /\ r.penalty.num = 100 * r.penalty.den

\* C28 as stated: shift-cost takes the Presses of single alphabetic characters;
\* each after the first puts the interval from the letter Press before it into
\* the bucket of the case of the current character; the result has both bucket
\* means, penalty = uppercase mean - lowercase mean and percentSlower =
\* 100 * penalty / lowercase mean, 0 when the lowercase bucket is empty, and is
\* absent when both buckets are empty.
C28_ShiftCostAsStated ==
  /\ statistics.set =>
       /\ ShiftMeansAndPenalty
       /\ shiftPenalty.set =>
            IF LowerBucket.count = 0 THEN shiftPenalty.value.percentSlower.num = 0
            ELSE IsPercentOfLowercase(shiftPenalty.value)
  /\ ShiftExample

\* C28 amended: as stated, but percentSlower is 100 * penalty / lowercase mean
\* only when the lowercase mean is greater than 0, and 0 otherwise (the
\* lowercase bucket is empty or its intervals are all 0); the mean reported
\* for an empty bucket is 0.
C28_ShiftCost ==
  /\ statistics.set =>
       /\ ShiftMeansAndPenalty
       /\ shiftPenalty.set =>
            LET r == shiftPenalty.value
            IN /\ UpperBucket.count = 0 => r.avgUppercase.num = 0
               /\ LowerBucket.count = 0 => r.avgLowercase.num = 0
               /\ IF LowerBucket.sum > 0 THEN IsPercentOfLowercase(r)
                  ELSE r.percentSlower.num = 0
  /\ ShiftExample

\* a at 1000, A at 1150, a at 1210, with a digit in between: uppercase mean
\* 150, lowercase mean 60, penalty 90, 150 percent slower
C28_Witness ==
  /\ shiftPenalty.set
  /\ \E j \in 1..Len(file) : file[j].key = "1"
  /\ UpperBucket = [sum |-> 150, count |-> 1]
  /\ LowerBucket = [sum |-> 60, count |-> 1]
  /\ shiftPenalty.value.penalty.num = 90 * shiftPenalty.value.penalty.den
  /\ shiftPenalty.value.percentSlower.num = 150 * shiftPenalty.value.percentSlower.den

\* the file at hand is no record, has no events field, or one that is no array
Malformed == fileShape \in {"null", "noEvents", "eventsNotArray"}

\* C29: given a record that is missing, has no events field or an events field
\* that is not a sequence, the entry point reports an error and returns before
\* any view is computed: statistics, dwell, flight, digraph, confusion, rhythm
\* and shift-cost results all stay as they were.
C29_MalformedRecordRejected ==
  [][ Malformed =>
        /\ alerted'
        /\ UNCHANGED <<statistics, dwellTimeByKey, dwellTimeByFinger, flightTimeByKey,
                       flightTimeByFinger, digraphLatency, errorConfusionMatrix,
                       rhythmData, shiftPenalty>> ]_vars

\* a file whose events field is not an array was rejected and the results of
\* the file analysed before are still shown
C29_Witness ==
  /\ fileShape = "eventsNotArray"
  /\ alerted
  /\ dwellTimeByKey.set /\ DOMAIN dwellTimeByKey.value = {"a", "Q"}
  /\ shiftPenalty.set

\* what the analysis of the same events gives when the file has a ledger
WithLedger == analyzeData(file, Present(CharStatesOf(Unstarted)))

\* C30: a record with a well-formed events sequence and no charStates is
\* analysed without an error: the digraph result is the empty list, the
\* confusion matrix and the rhythm series are absent, and the dwell, flight and
\* shift-cost results are those of the same events with charStates present.
C30_NoCharStatesDegrades ==
  (analyzerSessionData /\ ~charStates.present) =>
    /\ ~alerted
    /\ statistics.set
    /\ digraphLatency = Analyzed(<<>>)
    /\ errorConfusionMatrix = NotAnalyzed
    /\ rhythmData = NotAnalyzed
    /\ dwellTimeByKey = WithLedger.dwellTimeByKey
    /\ dwellTimeByFinger = WithLedger.dwellTimeByFinger
    /\ flightTimeByKey = WithLedger.flightTimeByKey
    /\ flightTimeByFinger = WithLedger.flightTimeByFinger
    /\ shiftPenalty = WithLedger.shiftPenalty

\* a file without charStates whose events give digraph and rhythm samples when
\* a ledger is there, and dwell, flight and shift-cost results without it
C30_Witness ==
  /\ analyzerSessionData /\ ~charStates.present
  /\ digraphLatency = Analyzed(<<>>)
  /\ WithLedger.digraphLatency # Analyzed(<<>>)
  /\ DOMAIN dwellTimeByKey.value # {}
  /\ DOMAIN flightTimeByKey.value # {}
  /\ shiftPenalty.set

\* the analysis step is given a record that passes the validation
AnalysisStep == fileShape = "record" /\ analyzerSessionData'

SaveSettles == savePc = "saving" /\ savePc' = "idle"

\* C32: the record endSession offers for local export when the save has settled
\* is the record that was handed to the store, whatever key signals arrived
\* while the save was in flight.
C32_ExportEqualsPersisted ==
  [][ SaveSettles => downloaded' = persisted ]_vars

\* C33: when the save fails (saveSession rejects or returns no session id) the
\* record endSession holds is neither discarded nor altered: the save status
\* becomes the error status and the whole record is offered for download.
C33_FailedSaveKeepsRecord ==
  [][ SaveSettled(FALSE) =>
        /\ saveStatus' = "error"
        /\ sessionData' = sessionData /\ sessionData' # NoRecord
        /\ downloaded' = sessionData ]_vars

\* a record with events was downloaded after its save had failed
C33_Witness ==
  /\ saveStatus = "error" /\ savePc = "idle"
  /\ downloaded # NoRecord /\ downloaded = sessionData
  /\ downloaded.events # <<>> /\ downloaded.maxIndexReached > 0

\* the fields the export and analysis consumers read
ConsumerFields ==
  {"events", "charStates", "text", "userInput", "sessionDuration", "accuracy",
   "mechanicalCPM", "productiveCPM", "maxIndexReached", "totalKeystrokes",
   "firstTimeErrors"}
\* the fields the table keeps in a nullable number column
NullableNumbers == {"mechanicalCPM", "productiveCPM", "maxIndexReached"}

\* the fetched session has field f with the value that was sent
FetchedAsSent(f) ==
  /\ f \in DOMAIN response.body
  /\ IF f \in NullableNumbers
       THEN response.body[f] = NotNull(requestBody[f])
       ELSE response.body[f] = requestBody[f]

\* C34: a session created through POST and fetched back by its id has every
\* field the consumers read, under the same name and with the value that was
\* sent, also when a numeric metric is 0.
C34_FetchedRecordAsSent ==
  response.status = 200 => \A f \in ConsumerFields : FetchedAsSent(f)

\* the step applies a printable press: it appends the Press to the log
PrintableApplied == PrintableStep /\ events' # events

\* C35: key signals are applied one at a time: a printable press is applied at
\* the cursor the last applied signal left and moves the cursor one position
\* on, so two printable presses share a position only with a Backspace in
\* between; and no press is applied once the end transition has begun.
C35_SignalsAppliedOneAtATime ==
  [][ /\ PrintableApplied =>
           /\ events'[Len(events')].currentIndex = currentIndex
           /\ userInput'[currentIndex + 1] = PressedKey
           /\ currentIndex' = currentIndex + 1
      /\ (KeyDownStep /\ Ended) =>
           UNCHANGED <<events, currentIndex, userInput, status, totalKeystrokes,
                       maxIndexReached, firstTimeErrors>> ]_vars

\* C36: when the Analyzer is opened with the id of a stored session, once the
\* fetch has delivered the record the views are those computed from the
\* record's events and charStates, and no error was raised.
C36_ViewsOfFetchedRecord ==
  (fetchPc = "delivered" /\ fileShape = "record") =>
    /\ ~alerted
    /\ statistics.set
    /\ dwellTimeByKey = Analyzed(calculateDwellTimeByKey(file))
    /\ flightTimeByKey = Analyzed(calculateFlightTimeByKey(file))
    /\ digraphLatency = Analyzed(calculateDigraphLatency(file, charStates))
    /\ errorConfusionMatrix = calculateErrorConfusionMatrix(charStates)
    /\ rhythmData = calculateRhythmData(file, charStates)
    /\ shiftPenalty = calculateShiftPenalty(file)

\* C37: in every reachable state 0 <= cursor <= maxIndexReached <= length of the
\* ledger; every position below maxIndexReached has a typed value and is not
\* Pending, every position from maxIndexReached on is Pending without a typed
\* value; and firstTimeErrors lies within 0 .. maxIndexReached - 1.
C37_CursorWithinFrontier ==
  /\ 0 <= currentIndex /\ currentIndex <= maxIndexReached
  /\ maxIndexReached <= Len(status) /\ maxIndexReached <= Len(userInput)
  /\ \A p \in 0..(Len(status) - 1) :
       IF p < maxIndexReached
         THEN status[p + 1] # "pending" /\ userInput[p + 1] # NULL
         ELSE status[p + 1] = "pending" /\ userInput[p + 1] = NULL
  /\ firstTimeErrors \subseteq 0..(maxIndexReached - 1)

\* the cursor was moved back behind the frontier, past a first-time error
C37_Witness ==
  /\ currentIndex = 1 /\ maxIndexReached = 2 /\ firstTimeErrors = {1}
  /\ lastInput = Input("keydown", "Backspace", FALSE)
  /\ Len(status) > 2

\* the entry of position p is self-consistent
EntryConsistent(p) ==
  LET typed == userInput[p + 1]
      expected == CharAt(text, p)
      st == status[p + 1]
  IN /\ st \in {"pending", "correct", "incorrect", "corrected"}
     /\ (st = "pending") <=> (typed = NULL)
     /\ (st = "incorrect") <=> (typed # NULL /\ typed # expected)
     /\ (st \in {"correct", "corrected"}) => (typed = expected)

\* C38: every ledger entry is self-consistent: Pending exactly when nothing is
\* typed, Incorrect exactly when the typed character differs from the expected
\* one, Correct or Corrected only when they are equal; and until the next
\* reset a position that has left Pending does not become Pending again and
\* one that has left Correct does not become Correct again.
C38_LedgerEntriesConsistent ==
  /\ [](\A p \in 0..(Len(status) - 1) : EntryConsistent(p))
  /\ [][ sessionStarted' =>
           \A p \in 0..(Len(status) - 1) :
              /\ status[p + 1] # "pending" => status'[p + 1] # "pending"
              /\ status[p + 1] \notin {"pending", "correct"} =>
                   status'[p + 1] # "correct" ]_vars

\* a first-time error was retyped correctly after a Backspace, and the next
\* position was missed
C38_Witness ==
  /\ Len(status) > 1
  /\ status[1] = "corrected" /\ userInput[1] = CharAt(text, 0)
  /\ 0 \notin firstTimeErrors
  /\ status[2] = "incorrect" /\ userInput[2] # CharAt(text, 1)

\* the Backspaces of the log that were pressed with the cursor past 0
BackspacesApplied ==
  Cardinality({ i \in 1..Len(events) :
                  /\ events[i].type = "keydown" /\ events[i].key = "Backspace"
                  /\ events[i].currentIndex > 0 })

\* C39: totalKeystrokes = cursor + 2 * (number of Backspaces applied with the
\* cursor past 0), and a Backspace at cursor 0 changes neither the cursor nor
\* totalKeystrokes; hence totalKeystrokes >= maxIndexReached, and in the
\* record of the session mechanicalCPM >= productiveCPM.
C39_KeystrokeCount ==
  /\ [](/\ totalKeystrokes = currentIndex + 2 * BackspacesApplied
        /\ totalKeystrokes >= maxIndexReached
        /\ sessionData # NoRecord =>
             /\ sessionData.totalKeystrokes >= sessionData.maxIndexReached
             /\ sessionData.mechanicalCPM >= sessionData.productiveCPM)
  /\ [][ (KeyDownStep /\ PressedKey = "Backspace" /\ currentIndex = 0) =>
           UNCHANGED <<currentIndex, totalKeystrokes>> ]_vars

\* the record of a session with an applied Backspace and a duration above 0
C39_Witness ==
  /\ sessionData # NoRecord /\ BackspacesApplied >= 1
  /\ sessionData.sessionDuration > 0
  /\ sessionData.maxIndexReached = 2 /\ sessionData.totalKeystrokes = 3
  /\ sessionData.mechanicalCPM > sessionData.productiveCPM
  /\ sessionData.productiveCPM > 0

\* the log opens with the press of the expected character at cursor 0
FirstEventStartsSession ==
  /\ Len(events) >= 1
  /\ events[1].type = "keydown"
  /\ events[1].currentIndex = 0
  /\ events[1].key = CharAt(text, 0)
  /\ events[1].expectedChar = events[1].key

\* C40: in every started session the first event of the log is the press of
\* the expected character at cursor 0, position 0 is not a first-time error,
\* so there are fewer first-time errors than positions reached and the
\* accuracy, live and in the record, is above 0 once a position is reached.
C40_StartedByCorrectPress ==
  /\ sessionStarted =>
       /\ FirstEventStartsSession
       /\ 0 \notin firstTimeErrors
       /\ maxIndexReached > 0
       /\ Cardinality(firstTimeErrors) < maxIndexReached
       /\ calculateAccuracy(maxIndexReached, firstTimeErrors) > 0
  /\ sessionData # NoRecord =>
       /\ 0 \notin sessionData.firstTimeErrors
       /\ sessionData.maxIndexReached > 0
       /\ Cardinality(sessionData.firstTimeErrors) < sessionData.maxIndexReached
       /\ sessionData.accuracy > 0

\* position 0 was retyped wrongly after a Backspace and position 1 was missed
\* at the first attempt: only position 1 is a first-time error
C40_Witness ==
  /\ sessionStarted /\ FirstEventStartsSession
  /\ maxIndexReached = 2 /\ firstTimeErrors = {1}
  /\ status[1] = "incorrect" /\ userInput[1] # CharAt(text, 0)
  /\ calculateAccuracy(maxIndexReached, firstTimeErrors) = 5000
====
